---------------------------- MODULE Spec2Model ----------------------------
(***************************************************************************)
(* Verification model of the SM2 / SM3 / SM4 library.                      *)
(*                                                                         *)
(* The 256-bit curve cannot be represented with the model checker's        *)
(* machine integers, so the model is instantiated on a curve of the same   *)
(* shape at one sixteenth of the width: a 16-bit prime field with          *)
(* a = p - 3, a prime-order base point, Montgomery radix 2^(bits+1),       *)
(* 2-byte coordinates and scalars where the source has 32-byte ones, and   *)
(* a 2-byte digest where the source has a 32-byte one.  Every algorithm    *)
(* (w-NAF, comb multiplication, Jacobian formulas, KDF, framing of the     *)
(* ciphertext, signature equations, block modes) is the source's.          *)
(* Field elements are modelled by their value modulo p (in Montgomery      *)
(* form), unsigned 32-bit masks by the int with the same bit pattern       *)
(* (0xFFFFFFFF is -1).                                                     *)
(***************************************************************************)
EXTENDS Integers, Sequences, FiniteSets, TLC

(***************************************************************************)
(* Curve blueprint (scaled instance of EC_P, EC_A, EC_B, EC_N, EC_GX,      *)
(* EC_GY) and the widths that the source fixes at 32 bytes / 256 bits.     *)
(***************************************************************************)
EC_P == 46327
EC_A == 46324
EC_B == 261
EC_N == 46147
EC_GX == 12000
EC_GY == 23000
\* bytes per coordinate, per scalar and per private key (32 in the source)
CoordLen == 2
\* bytes of an H256 digest and of a KDF block (32 in the source)
HashLen == 2
\* comb iterations of the base-point multiplication (32 in the source);
\* the scalar has 8 * CombIters bits
CombIters == 2
\* R = 2^(8 * CoordLen + 1) mod p, the Montgomery radix (2^257 in the source)
MontR == 38418
\* RI = R^-1 mod p
RI == 39380

(***************************************************************************)
(* Byte strings and big integers (num-bigint, hex)                         *)
(***************************************************************************)
Pow2Table ==
    <<1, 2, 4, 8, 16, 32, 64, 128, 256, 512, 1024, 2048, 4096, 8192, 16384, 32768,
      65536, 131072, 262144, 524288, 1048576, 2097152, 4194304, 8388608, 16777216,
      33554432, 67108864, 134217728, 268435456, 536870912, 1073741824>>

\* 2^k for k in 0..30
Pow2(k) == Pow2Table[k + 1]

\* BigUint::bits: number of significant bits, 0 for zero
bits(k) ==
    IF k = 0 THEN 0
    ELSE CHOOSE b \in 1..31 : Pow2(b - 1) <= k /\ (b = 31 \/ k < Pow2(b))

\* TRUE.  A definition is computed where it is first used; Computed(v) puts
\* the first use of v where it stands, so that pending computations do not
\* pile up inside one another.
Computed(v) == v = v

RECURSIVE BytesBeNonZero(_)
BytesBeNonZero(k) == IF k = 0 THEN << >> ELSE Append(BytesBeNonZero(k \div 256), k % 256)

\* BigUint::to_bytes_be: minimal big-endian bytes, [0] for zero
to_bytes_be(k) == IF k = 0 THEN <<0>> ELSE BytesBeNonZero(k)

RECURSIVE from_bytes_be(_)
from_bytes_be(s) ==
    IF Len(s) = 0 THEN 0
    ELSE 256 * from_bytes_be(SubSeq(s, 1, Len(s) - 1)) + s[Len(s)]

\* BigUint::to_bytes_le
Reverse(xs) == << >> \o [i \in 1..Len(xs) |-> xs[(Len(xs) + 1) - i]]

to_bytes_le(k) == Reverse(to_bytes_be(k))

\* xs[from..to) with Rust's 0-based, end-exclusive bounds
Slice(xs, from, to) == SubSeq(xs, from + 1, to)

RECURSIVE Zeros(_)
Zeros(k) ==
    IF k = 0 THEN << >>
    ELSE LET h == Zeros(k \div 2)
         IN IF k % 2 = 1 THEN Append(h \o h, 0) ELSE h \o h

\* left-pad a big-endian byte string with zeros to CoordLen bytes
to_32_bytes(x) == IF Len(x) >= CoordLen THEN x ELSE Zeros(CoordLen - Len(x)) \o x

RECURSIVE XorBits(_, _, _)
XorBits(a, b, k) ==
    IF k = 0 THEN 0
    ELSE ((a + b) % 2) + 2 * XorBits(a \div 2, b \div 2, k - 1)

\* u8 ^ u8
Xor8(a, b) == XorBits(a, b, 8)


(***************************************************************************)
(* Field elements (Payload): value-level Montgomery arithmetic             *)
(***************************************************************************)
\* PayloadHelper::transform: n * R mod p (mod_floor, so negative n is fine)
transform(k) == ((k % EC_P) * MontR) % EC_P

\* PayloadHelper::restore: m * RI mod p
restore(m) == (m * RI) % EC_P

\* the limbs of a Payload: LimbCount of them, of WideBits bits at the even
\* indexes and NarrowBits bits at the odd ones (9, 29 and 28 in the source),
\* MontR being 2^(3 * WideBits + 2 * NarrowBits - WideBits) modulo p
LimbCount == 3

WideBits == 6

NarrowBits == 5

\* the while loop of transform: limbs i.. of x, least significant first
RECURSIVE TransformLoop(_, _, _)
TransformLoop(x, i, data) ==
    LET Narrow(y, j, d) ==
            IF j = LimbCount THEN d
            ELSE TransformLoop(y \div Pow2(NarrowBits), j + 1,
                               [d EXCEPT ![j + 1] = y % Pow2(NarrowBits)])
    IN IF ~(i < LimbCount) THEN data
       ELSE Narrow(x \div Pow2(WideBits), i + 1, [data EXCEPT ![i + 1] = x % Pow2(WideBits)])

\* PayloadHelper::transform down to the limbs
TransformLimbs(n) == TransformLoop(transform(n), 0, Zeros(LimbCount))

\* a loop of restore that shifts by the width of the limb above
RECURSIVE RestoreLoopSwapped(_, _, _)
RestoreLoopSwapped(data, i, n) ==
    IF i < 0 THEN n
    ELSE RestoreLoopSwapped(data, i - 1,
             (n * (IF i % 2 = 0 THEN Pow2(NarrowBits) ELSE Pow2(WideBits))) + data[i + 1])

\* the while loop of restore: n shifted by the width of limb i, plus limb i
RECURSIVE RestoreLoop(_, _, _)
RestoreLoop(data, i, n) ==
    IF i < 0 THEN n
    ELSE RestoreLoop(data, i - 1,
             (n * (IF i % 2 = 0 THEN Pow2(WideBits) ELSE Pow2(NarrowBits))) + data[i + 1])

\* PayloadHelper::restore from the limbs
RestoreLimbs(data) == restore(RestoreLoop(data, LimbCount - 2, data[LimbCount]) % EC_P)

PayloadAdd(x, y) == (x + y) % EC_P

PayloadSubtract(x, y) == (x - y) % EC_P

\* Montgomery product x * y / R mod p
PayloadMultiply(x, y) == (((x * y) % EC_P) * RI) % EC_P

square(x) == PayloadMultiply(x, x)

\* multiply by P256FACTOR[k], the Montgomery form of the small integer k
scalar_multiply(x, k) == PayloadMultiply(x, transform(k))

\* P256FACTOR[1]: Montgomery form of 1
P256FACTOR1 == transform(1)

\* num-integer extended_gcd(a, b).x: the Bezout coefficient of a
RECURSIVE EgcdLoop(_, _, _, _)
EgcdLoop(oldR, r, oldS, s) ==
    IF ~Computed(<<s, oldS>>) \/ r = 0 THEN oldS
    ELSE LET q == oldR \div r
         IN EgcdLoop(r, oldR - q * r, s, oldS - q * s)

extended_gcd_x(a, b) == EgcdLoop(a, b, 1, 0)

(***************************************************************************)
(* Points.  Affine: <<x, y>>.  Jacobian: <<X, Y, Z>>.  Montgomery form.    *)
(***************************************************************************)
to_jacobian(A) == <<A[1], A[2], transform(1)>>

\* P256JacobianPoint::double
double(P) ==
    LET a == transform(EC_A)
        x == P[1]
        y == P[2]
        z == P[3]
        WithRx(alpha, beta, delta, gama, t2, rx) ==
            <<rx,
              PayloadSubtract(PayloadMultiply(PayloadSubtract(delta, rx), gama), t2),
              PayloadSubtract(PayloadSubtract(square(PayloadAdd(y, z)), alpha), beta)>>
        WithGama(alpha, beta, delta, gama, t2) ==
            WithRx(alpha, beta, delta, gama, t2,
                   PayloadSubtract(PayloadSubtract(square(gama), delta), delta))
        WithSquares(alpha, beta) ==
            WithGama(alpha, beta,
                     scalar_multiply(PayloadMultiply(x, beta), 4),
                     PayloadAdd(scalar_multiply(square(x), 3),
                                PayloadMultiply(a, square(alpha))),
                     scalar_multiply(square(beta), 8))
    IN WithSquares(square(z), square(y))

\* P256JacobianPoint::add_affine (no handling of P+P or of infinity)
add_affine(P, A) ==
    LET x1 == P[1]
        y1 == P[2]
        z1 == P[3]
        x2 == A[1]
        y2 == A[2]
        Twice(v) == PayloadAdd(v, v)
        LessTwice(u, v) == PayloadSubtract(PayloadSubtract(u, v), v)
        WithXOut(r, j, v, z_out, x_out) ==
            <<x_out,
              LessTwice(PayloadMultiply(PayloadSubtract(v, x_out), r),
                        PayloadMultiply(y1, j)),
              z_out>>
        WithJ(r, j, v, z_out) ==
            WithXOut(r, j, v, z_out, LessTwice(PayloadSubtract(square(r), j), v))
        WithI(h, r, i) ==
            WithJ(r, PayloadMultiply(h, i), PayloadMultiply(x1, i),
                  PayloadMultiply(Twice(z1), h))
        WithH(h, r) == WithI(h, r, square(Twice(h)))
        WithZ1Z1(z1z1) ==
            WithH(PayloadSubtract(PayloadMultiply(x2, z1z1), x1),
                  Twice(PayloadSubtract(
                      PayloadMultiply(y2, PayloadMultiply(z1, z1z1)), y1)))
    IN WithZ1Z1(square(z1))

\* P256JacobianPoint::add
JacobianAdd(P1, P2) ==
    LET x1 == P1[1]
        y1 == P1[2]
        z1 == P1[3]
        x2 == P2[1]
        y2 == P2[2]
        z2 == P2[3]
        WithX3(u1, u2, s1, s2, h, r, h3, tmp, x3) ==
            <<x3,
              PayloadSubtract(PayloadMultiply(r, PayloadSubtract(tmp, x3)),
                              PayloadMultiply(h3, s1)),
              IF restore(u1) = restore(u2) /\ restore(s1) = restore(s2)
              THEN PayloadMultiply(PayloadMultiply(double(P1)[3], z2), h)
              ELSE PayloadMultiply(PayloadMultiply(z1, z2), h)>>
        WithH2(u1, u2, s1, s2, h, r, h2, tmp) ==
            WithX3(u1, u2, s1, s2, h, r, PayloadMultiply(h2, h), tmp,
                   PayloadSubtract(PayloadSubtract(square(r), PayloadMultiply(h2, h)),
                                   scalar_multiply(tmp, 2)))
        WithH(u1, u2, s1, s2, h, h2) ==
            WithH2(u1, u2, s1, s2, h, PayloadSubtract(s2, s1), h2,
                   PayloadMultiply(u1, h2))
        WithU(u1, u2, s1, s2) ==
            LET h == PayloadSubtract(u2, u1)
            IN WithH(u1, u2, s1, s2, h, square(h))
        WithZ(z12, z22) ==
            WithU(PayloadMultiply(x1, z22), PayloadMultiply(x2, z12),
                  PayloadMultiply(y1, PayloadMultiply(z22, z2)),
                  PayloadMultiply(y2, PayloadMultiply(z12, z1)))
    IN IF restore(z1) = 0 THEN P2
       ELSE IF restore(z2) = 0 THEN P1
       ELSE WithZ(square(z1), square(z2))

\* P256JacobianPoint::subtract: add the point with Y negated
JacobianSubtract(P1, P2) ==
    JacobianAdd(P1, <<P2[1], transform(0 - restore(P2[2])), P2[3]>>)

\* P256JacobianPoint::to_affine_point
to_affine_point(P) ==
    LET z  == restore(P[3])
        zi == extended_gcd_x(z, EC_P) % EC_P
        WithBeta(alpha, beta) ==
            <<PayloadMultiply(P[1], beta),
              PayloadMultiply(P[2], PayloadMultiply(alpha, beta))>>
        WithAlpha(alpha) == WithBeta(alpha, square(alpha))
    IN WithAlpha(transform(zi))

\* P256AffinePoint::restore
AffineRestore(A) == <<restore(A[1]), restore(A[2])>>

(***************************************************************************)
(* Unsigned 32-bit words, held as the int with the same bit pattern        *)
(***************************************************************************)
U32MAX == 0 - 1

I32MIN == (0 - 2147483647) - 1

RECURSIVE BitAnd(_, _)
BitAnd(x, y) ==
    IF x = 0 \/ y = 0 THEN 0
    ELSE IF x = U32MAX THEN y
    ELSE IF y = U32MAX THEN x
    ELSE ((x % 2) * (y % 2)) + 2 * BitAnd(x \div 2, y \div 2)

RECURSIVE BitOr(_, _)
BitOr(x, y) ==
    IF x = 0 THEN y
    ELSE IF y = 0 THEN x
    ELSE IF x = U32MAX \/ y = U32MAX THEN U32MAX
    ELSE (IF x % 2 = 1 \/ y % 2 = 1 THEN 1 ELSE 0) + 2 * BitOr(x \div 2, y \div 2)

BitNot(x) == (0 - x) - 1

RECURSIVE BitXor(_, _)
BitXor(x, y) ==
    IF x = 0 THEN y
    ELSE IF y = 0 THEN x
    ELSE IF x = U32MAX THEN BitNot(y)
    ELSE IF y = U32MAX THEN BitNot(x)
    ELSE ((x + y) % 2) + 2 * BitXor(x \div 2, y \div 2)

\* x >> k for 0 <= x < 2^31
ShrNat(x, k) == IF k >= 31 THEN 0 ELSE x \div Pow2(k)

\* logical right shift of a 32-bit word by k >= 1
Shr32(x, k) ==
    IF x >= 0 THEN ShrNat(x, k)
    ELSE ShrNat(((x \div 2) + 1073741824) + 1073741824, k - 1)

wrapping_sub1(x) == IF x = I32MIN THEN 2147483647 ELSE x - 1

\* mask: 0xffffffff for 0 < x <= 2^31, 0 for x = 0 or x > 2^31
\* a mask that looks at the lowest bit only
mask_of_low_bit(x) == IF x % 2 = 1 THEN U32MAX ELSE 0

mask(x) == wrapping_sub1(Shr32(wrapping_sub1(x), 31))

\* an index-equality mask that smears by one bit only
SelectMaskOneSmear(i, index) ==
    LET Smear(m, k) == BitOr(m, Shr32(m, k))
        Sub1(m) == IF m = 0 THEN U32MAX ELSE m - 1
    IN Sub1(BitAnd(Smear(BitXor(i, index), 1), 1))

\* the index-equality mask of the select loops: all ones iff i = index
SelectMask(i, index) ==
    LET Smear(m, k) == BitOr(m, Shr32(m, k))
        Sub1(m) == IF m = 0 THEN U32MAX ELSE m - 1
    IN Sub1(BitAnd(Smear(Smear(BitXor(i, index), 2), 1), 1))

\* the contribution of entries lo..hi to P256AffinePoint::select: the OR of
\* the masked entries, taken by halves
RECURSIVE AffineSelectRange(_, _, _, _)
AffineSelectRange(lo, hi, index, table) ==
    LET Masked(entry, m) == <<BitAnd(entry[1], m), BitAnd(entry[2], m)>>
        Or2(l, h) == <<BitOr(l[1], h[1]), BitOr(l[2], h[2])>>
        mid == (lo + hi) \div 2
    IN IF lo = hi
       THEN Masked(table[lo], SelectMask(lo, index))
       ELSE Or2(AffineSelectRange(lo, mid, index, table),
                AffineSelectRange(mid + 1, hi, index, table))

\* P256AffinePoint::select over one 15-entry half of the comb table
AffineSelect(index, table) == AffineSelectRange(1, 15, index, table)

\* the index-equality mask of P256JacobianPoint::select (wrapping_sub form)
JacobianSelectMask(i, index) ==
    LET Smear(m, k) == BitOr(m, Shr32(m, k))
    IN wrapping_sub1(BitAnd(Smear(Smear(BitXor(i, index), 2), 1), 1))

\* the contribution of rows lo..hi to P256JacobianPoint::select
RECURSIVE JacobianSelectRange(_, _, _, _)
JacobianSelectRange(lo, hi, index, table) ==
    LET Masked(row, m) == <<BitAnd(row[1], m), BitAnd(row[2], m), BitAnd(row[3], m)>>
        Or3(l, h) == <<BitOr(l[1], h[1]), BitOr(l[2], h[2]), BitOr(l[3], h[3])>>
        mid == (lo + hi) \div 2
    IN IF lo = hi
       THEN Masked(table[lo + 1], JacobianSelectMask(lo, index))
       ELSE Or3(JacobianSelectRange(lo, mid, index, table),
                JacobianSelectRange(mid + 1, hi, index, table))

\* P256JacobianPoint::select over the 16-row precomp table (rows 0..15)
JacobianSelect(index, table) == JacobianSelectRange(0, 15, index, table)

\* a conditional copy that ors the masked source into the receiver
copy_from_with_or(self, source, m) ==
    <<BitOr(self[1], BitAnd(m, source[1])),
      BitOr(self[2], BitAnd(m, source[2])),
      BitOr(self[3], BitAnd(m, source[3]))>>

\* P256JacobianPoint::copy_from_with_conditional
copy_from_with_conditional(self, source, m) ==
    <<BitXor(self[1], BitAnd(m, BitXor(source[1], self[1]))),
      BitXor(self[2], BitAnd(m, BitXor(source[2], self[2]))),
      BitXor(self[3], BitAnd(m, BitXor(source[3], self[3])))>>

(***************************************************************************)
(* Scalar multiplication of an arbitrary point (w-NAF)                     *)
(***************************************************************************)

abs(d) == IF d < 0 THEN 0 - d ELSE d

\* the while loop of w_naf; the digit of position j is kept at naf[j + 1]
RECURSIVE WNafLoop(_, _, _, _, _, _)
WNafLoop(k, nbits, carry, length, pos, naf) ==
    LET Carry(digit) == (digit \div 8) % 2 = 1
        Emit(k2, digit) ==
            WNafLoop(k2, nbits, Carry(digit), length + pos, 4,
                     [naf EXCEPT ![length + pos + 1] =
                          IF Carry(digit) THEN digit - 16 ELSE digit])
    IN IF pos > nbits THEN <<naf, length>>
       ELSE IF ShrNat(k, pos) % 2 = (IF carry THEN 1 ELSE 0)
       THEN WNafLoop(k, nbits, carry, length, pos + 1, naf)
       ELSE Emit(ShrNat(k, pos), (ShrNat(k, pos) % 16) + (IF carry THEN 1 ELSE 0))

\* w_naf without the final reverse: least significant digit first
w_naf_unreversed(scalar) ==
    LET Digits(r) == SubSeq(r[1], 1, r[2] + 1)
    IN IF scalar = 0 THEN Zeros(bits(scalar) + 1)
       ELSE Digits(WNafLoop(scalar, bits(scalar), FALSE, 0, 0, Zeros(bits(scalar) + 1)))

\* w_naf: signed digits, most significant first
w_naf(scalar) ==
    LET nbits == bits(scalar)
        Digits(r) == Reverse(SubSeq(r[1], 1, r[2] + 1))
    IN IF scalar = 0 THEN Zeros(nbits + 1)
       ELSE Digits(WNafLoop(scalar, nbits, FALSE, 0, 0, Zeros(nbits + 1)))

\* a table loop that stores the sum in the even row and the double in the odd
RECURSIVE PrecompLoopSwapped(_, _, _)
PrecompLoopSwapped(i, A, precomp) ==
    LET Store(dbl) ==
            PrecompLoopSwapped(i + 2, A,
                [precomp EXCEPT ![i + 1] = add_affine(dbl, A), ![i + 2] = dbl])
    IN IF ~(i < 8) THEN precomp
       ELSE Store(double(precomp[(i \div 2) + 1]))

\* the table of P256AffinePoint::multiply: row i of the source at index i + 1
RECURSIVE PrecompLoop(_, _, _)
PrecompLoop(i, A, precomp) ==
    LET Store(dbl) ==
            PrecompLoop(i + 2, A,
                [precomp EXCEPT ![i + 1] = dbl, ![i + 2] = add_affine(dbl, A)])
    IN IF ~(i < 8) THEN precomp
       ELSE Store(double(precomp[(i \div 2) + 1]))

Precomp(A) ==
    LET zero == <<0, 0, 0>>
    IN PrecompLoop(2, A, <<zero, <<A[1], A[2], P256FACTOR1>>, zero, zero,
                           zero, zero, zero, zero, zero, zero, zero, zero,
                           zero, zero, zero, zero>>)

RECURSIVE DoubleTimes(_, _)
DoubleTimes(P, counter) ==
    IF ~Computed(P) \/ counter = 0 THEN P ELSE DoubleTimes(double(P), counter - 1)

\* the drive loop of P256AffinePoint::multiply
RECURSIVE MultiplyLoop(_, _, _, _, _, _)
MultiplyLoop(naf, i, points, p1, counter, n_is_infinity_mask) ==
    LET idx == abs(naf[i])
        p_is_finite_mask == mask(idx)
        Copies(q1, p2, p3) ==
            copy_from_with_conditional(
                copy_from_with_conditional(q1, p2, n_is_infinity_mask),
                p3,
                BitAnd(p_is_finite_mask, BitNot(n_is_infinity_mask)))
        Digit(q1, p2) ==
            Copies(q1, p2,
                   IF naf[i] > 0 THEN JacobianAdd(q1, p2) ELSE JacobianSubtract(q1, p2))
    IN IF ~Computed(<<p1, n_is_infinity_mask>>) \/ i > Len(naf)
       THEN DoubleTimes(p1, counter)
       ELSE IF naf[i] = 0
       THEN MultiplyLoop(naf, i + 1, points, p1, counter + 1, n_is_infinity_mask)
       ELSE MultiplyLoop(naf, i + 1, points,
                         Digit(double(DoubleTimes(p1, counter)),
                               JacobianSelect(idx, points)),
                         0,
                         BitAnd(n_is_infinity_mask, BitNot(p_is_finite_mask)))

\* one pass of the for loop of P256AffinePoint::multiply, on digit naf[i]:
\* <<p1, counter, n_is_infinity_mask>> after it
DriveStep(naf, i, points, p1, counter, n_is_infinity_mask) ==
    LET idx == abs(naf[i])
        p_is_finite_mask == mask(idx)
        Copies(q1, p2, p3) ==
            copy_from_with_conditional(
                copy_from_with_conditional(q1, p2, n_is_infinity_mask),
                p3,
                BitAnd(p_is_finite_mask, BitNot(n_is_infinity_mask)))
        Digit(q1, p2) ==
            Copies(q1, p2,
                   IF naf[i] > 0 THEN JacobianAdd(q1, p2) ELSE JacobianSubtract(q1, p2))
    IN IF naf[i] = 0 THEN <<p1, counter + 1, n_is_infinity_mask>>
       ELSE <<Digit(double(DoubleTimes(p1, counter)), JacobianSelect(idx, points)),
              0,
              BitAnd(n_is_infinity_mask, BitNot(p_is_finite_mask))>>

\* P256AffinePoint::multiply
AffineMultiply(A, scalar) ==
    LET Restore(jacobian) == CASE Computed(jacobian) -> to_affine_point(jacobian)
        Drive(naf, points) ==
            CASE Computed(<<naf, points>>) ->
                Restore(MultiplyLoop(naf, 1, points, <<0, 0, 0>>, 0, U32MAX))
    IN Drive(w_naf(scalar), Precomp(A))

(***************************************************************************)
(* Scalar multiplication of the base point (comb table)                    *)
(***************************************************************************)
\* the comb table: two halves of 15 affine entries in Montgomery form; entry
\* idx = b0 + 2 b1 + 4 b2 + 8 b3 of half h holds the multiple of G by the sum
\* of b_m * 2^(2 * CombIters * m + h * CombIters)
MULTI_BASE_POINT_PRECOMPUTED ==
    << <<<<16023, 19129>>, <<38229, 14312>>, <<36297, 3294>>, <<15713, 39111>>,
         <<15893, 45718>>, <<24397, 11110>>, <<29827, 5276>>, <<45716, 11232>>,
         <<3215, 22155>>, <<43605, 31207>>, <<29629, 12674>>, <<7317, 26777>>,
         <<10058, 23384>>, <<12121, 13772>>, <<34811, 26313>>>>,
       <<<<26887, 41993>>, <<20676, 24056>>, <<37110, 13537>>, <<12970, 24316>>,
         <<37996, 12024>>, <<3808, 384>>, <<33428, 43455>>, <<28208, 16843>>,
         <<9980, 10630>>, <<11861, 18387>>, <<35625, 22486>>, <<46247, 18858>>,
         <<6682, 3939>>, <<19686, 2815>>, <<21110, 38087>>>> >>

\* the scalar copied into the fixed little-endian byte array
ScalarBytes(scalar) ==
    LET le == to_bytes_le(scalar)
    IN le \o Zeros(CoordLen - Len(le))

\* bytes[i] = v indexes past the array when the scalar has more bytes
BaseMultiplyPanics(scalar) == Len(to_bytes_le(scalar)) > CoordLen

bit_of_scalar(scalar, bit) == ShrNat(scalar[(bit \div 8) + 1], bit % 8) % 2

\* a position of bit m with the stride of one table half only
CombBitNarrow(m, i, j) == ((((m + 1) * CombIters) - 1) - i) + j

\* the position of bit m (0..3) of the comb index: 31 - i + j, 95 - i + j,
\* 159 - i + j, 223 - i + j for the 32 iterations of the source
CombBit(m, i, j) == (((((2 * m) + 1) * CombIters) - 1) - i) + j

\* idx = bit0 | bit1 << 1 | bit2 << 2 | bit3 << 3
CombIndex(scalar, i, j) ==
    bit_of_scalar(scalar, CombBit(0, i, j))
        + (2 * bit_of_scalar(scalar, CombBit(1, i, j)))
        + (4 * bit_of_scalar(scalar, CombBit(2, i, j)))
        + (8 * bit_of_scalar(scalar, CombBit(3, i, j)))

\* one table half of one iteration: select, add_affine, two conditional copies
CombStep(scalar, st, i, j) ==
    LET Step(idx, affine) ==
            [jacobian |->
                copy_from_with_conditional(
                    copy_from_with_conditional(st.jacobian,
                        <<affine[1], affine[2], P256FACTOR1>>, st.n_is_infinity_mask),
                    add_affine(st.jacobian, affine),
                    BitAnd(mask(idx), BitNot(st.n_is_infinity_mask))),
             n_is_infinity_mask |-> BitAnd(st.n_is_infinity_mask, BitNot(mask(idx)))]
        Select(idx) ==
            Step(idx, AffineSelect(idx, MULTI_BASE_POINT_PRECOMPUTED[(j \div CombIters) + 1]))
    IN Select(CombIndex(scalar, i, j))

RECURSIVE CombLoop(_, _, _)
CombLoop(scalar, st, i) ==
    IF ~Computed(st) \/ i = CombIters THEN st
    ELSE LET st0 == IF i # 0 THEN [st EXCEPT !.jacobian = double(st.jacobian)] ELSE st
             st1 == CombStep(scalar, st0, i, 0)
             st2 == CombStep(scalar, st1, i, CombIters)
         IN CombLoop(scalar, st2, i + 1)

\* P256BasePoint::multiply
BaseMultiply(scalar) ==
    LET Finish(st) == CASE Computed(st) -> to_affine_point(st.jacobian)
        Comb(bytes) ==
            CASE Computed(bytes) ->
                Finish(CombLoop(bytes,
                       [jacobian |-> <<0, 0, 0>>, n_is_infinity_mask |-> U32MAX], 0))
    IN Comb(ScalarBytes(scalar))

(***************************************************************************)
(* Strings.  A str is the sequence of its code points (below 2048 here);   *)
(* a hex string is the sequence of its characters, a hex digit being its   *)
(* value 0..15 and any other character NotHex.                             *)
(***************************************************************************)
REPLACEMENT == 65533

NotHex == 16

\* str::as_bytes: the UTF-8 encoding
RECURSIVE as_bytes(_)
as_bytes(str) ==
    IF str = << >> THEN << >>
    ELSE LET c == Head(str)
         IN (IF c < 128 THEN <<c>> ELSE <<192 + (c \div 64), 128 + (c % 64)>>)
            \o as_bytes(Tail(str))

\* String::from_utf8_lossy on one- and two-byte sequences: a byte that starts
\* no valid sequence becomes U+FFFD
RECURSIVE from_utf8_lossy(_)
from_utf8_lossy(bs) ==
    IF bs = << >> THEN << >>
    ELSE LET b == Head(bs)
         IN IF b < 128 THEN <<b>> \o from_utf8_lossy(Tail(bs))
            ELSE IF b >= 194 /\ b <= 223 /\ Len(bs) >= 2 /\ bs[2] >= 128 /\ bs[2] <= 191
            THEN <<((b - 192) * 64) + (bs[2] - 128)>> \o from_utf8_lossy(Tail(Tail(bs)))
            ELSE <<REPLACEMENT>> \o from_utf8_lossy(Tail(bs))

\* hex::encode
HexEncode(bs) ==
    << >> \o [i \in 1..(2 * Len(bs)) |->
                IF i % 2 = 1 THEN bs[(i + 1) \div 2] \div 16 ELSE bs[i \div 2] % 16]

\* hex::decode is Err on an odd length or on a character that is no hex digit
HexDecodeErr(str) == Len(str) % 2 = 1 \/ \E i \in 1..Len(str) : str[i] = NotHex

HexDecode(str) ==
    << >> \o [i \in 1..(Len(str) \div 2) |-> (str[(2 * i) - 1] * 16) + str[2 * i]]

\* str::starts_with("04")
StartsWith04(str) == Len(str) >= 2 /\ str[1] = 0 /\ str[2] = 4

\* str::trim_start_matches("04"): every leading repetition of the pattern goes
RECURSIVE TrimStartMatches04(_)
TrimStartMatches04(str) ==
    IF StartsWith04(str) THEN TrimStartMatches04(Tail(Tail(str))) ELSE str

(***************************************************************************)
(* SM3.  pad and block are the source's; the compression function works on *)
(* one register of HashLen bytes instead of eight 32-bit words.            *)
(***************************************************************************)
BlockLen == 64

IV == 5743

HashMod == 65536

\* a length field that holds the length in bytes
LengthFieldOfBytes(l) ==
    <<0, 0, 0, 0, 0, (l \div 524288) % 256, (l \div 2048) % 256, (l \div 8) % 256>>

\* the 64-bit big-endian bit length appended by pad
LengthField(l) ==
    <<0, 0, 0, 0, (l \div 16777216) % 256, (l \div 65536) % 256, (l \div 256) % 256, l % 256>>

\* Crypto::pad: 0x80, zeros until the length is 56 modulo 64, the bit length
pad(data) ==
    Append(data, 128) \o Zeros((55 - Len(data)) % BlockLen) \o LengthField(Len(data) * 8)

\* Crypto::block
RECURSIVE block(_)
block(data) ==
    IF Len(data) = 0 THEN << >>
    ELSE <<SubSeq(data, 1, BlockLen)>> \o block(SubSeq(data, BlockLen + 1, Len(data)))

\* the word W_j (j in 0..15) of a block, from its four bytes
Word(b, j) ==
    (((((b[(4 * j) + 1] * 31) + b[(4 * j) + 2]) * 31) + b[(4 * j) + 3]) * 31) + b[(4 * j) + 4]

\* one round
Round(v, b, j) == (((v * 181) + Word(b, j)) + j) % HashMod

\* four rounds
Round4(v, b, j) == Round(Round(Round(Round(v, b, j), b, j + 1), b, j + 2), b, j + 3)

\* the rounds over the sixteen words of one block
CF(v, b) == Round4(Round4(Round4(Round4(v, b, 0), b, 4), b, 8), b, 12)

\* Crypto::iterate: V(i+1) = CF(V(i), B(i)) with the feed-forward of V(i)
RECURSIVE iterate(_, _)
iterate(registers, blocks) ==
    IF ~Computed(registers) \/ blocks = << >> THEN registers
    ELSE iterate((CF(registers, Head(blocks)) + registers) % HashMod,
                 Tail(blocks))

\* Crypto::output: the register as big-endian bytes
output(registers) == <<registers \div 256, registers % 256>>

\* sm3::hash
hash(data) ==
    LET Blocks(blocks) == CASE Computed(blocks) -> output(iterate(IV, blocks))
    IN Blocks(block(pad(data)))

(***************************************************************************)
(* The provider: big integers in, big integers out                         *)
(***************************************************************************)
\* Elliptic::scalar_reduce: the scalar modulo n when it is greater than n
scalar_reduce(scalar) == IF scalar > EC_N THEN scalar % EC_N ELSE scalar

\* EllipticProvider::scalar_multiply
EccScalarMultiply(x, y, k) ==
    AffineRestore(AffineMultiply(<<transform(x), transform(y)>>, k))

\* EllipticProvider::scalar_base_multiply
scalar_base_multiply(k) == AffineRestore(BaseMultiply(k))

\* Elliptic::random(from, to) on the raw random integer k
random(from, to, k) ==
    LET temp == IF from > to THEN from - to ELSE to - from
    IN IF temp = 0 THEN from ELSE (k % (temp + 1)) + from

\* a reduction modulo n that leaves out the shift by one
gen_private_key_unshifted(k) == k % EC_N

\* KeyGenerator::gen_private_key on the raw random integer k
gen_private_key(k) == (k % (EC_N - 2)) + 1

\* KeyGenerator::gen_public_key
gen_public_key(d) == scalar_base_multiply(d)

(***************************************************************************)
(* Results of operations that may panic                                    *)
(***************************************************************************)
Ok(v) == [ok |-> TRUE, val |-> v, err |-> "none"]

\* a panic with message msg; dflt is a value of the operation's result type
Panic(msg, dflt) == [ok |-> FALSE, val |-> dflt, err |-> msg]

ErrIndex == "index out of bounds"

ErrInvalid == "The cipher data is invalid."

ErrNotHex == "The cipher data must be composed of hex chars."

ErrHash == "The cipher data hash validation failed."

(***************************************************************************)
(* SM2 encryption                                                          *)
(***************************************************************************)
\* to_bytes: the counter as four big-endian bytes
to_bytes(x) == <<(x \div 16777216) % 256, (x \div 65536) % 256, (x \div 256) % 256, x % 256>>

\* the for loop of kdf; counter = i + 1
RECURSIVE KdfLoop(_, _, _, _, _)
KdfLoop(data, len, k, i, result) ==
    IF ~Computed(result) \/ i = k THEN result
    ELSE LET h == hash(data \o to_bytes(i + 1))
         IN KdfLoop(data, len, k, i + 1,
                result \o (IF (i + 1) = k /\ len % HashLen # 0
                           THEN SubSeq(h, 1, len % HashLen)
                           ELSE h))

\* the number of blocks kdf emits: data.len() + 31 / 32 in the source
KdfBlocks(data, len) == Len(data) + ((HashLen - 1) \div HashLen)

\* kdf
kdf(data, len) == KdfLoop(data, len, KdfBlocks(data, len), 0, << >>)

\* is_all_zero
is_all_zero(data) == \A i \in 1..Len(data) : data[i] = 0

\* data[i] ^ t[i] for i in 0..data.len(); indexing t panics when it is shorter
XorBytes(data, t) == << >> \o [i \in 1..Len(data) |-> Xor8(data[i], t[i])]

\* the C1 component as the encryptor writes it
EncodeC1(x1, y1) == <<4>> \o to_bytes_be(x1) \o to_bytes_be(y1)

\* the tag C3 = hash(x2 || M || y2)
Tag(x2, data, y2) == hash(to_bytes_be(x2) \o data \o to_bytes_be(y2))

\* the order of the three components
Assemble(m, c1, c2, c3) == IF m = "C1C3C2" THEN c1 \o c3 \o c2 ELSE c1 \o c2 \o c3

\* one pass of the loop of Encryptor::execute with the nonce k: the three
\* components (empty when the pass does not get to them) and the outcome,
\* "retry" being the continue of an all-zero key stream
EncryptPass(Q, m, str, k) ==
    LET none == <<<< >>, << >>, << >>>>
        Written(c1, c2, c3) ==
            [parts |-> <<c1, c2, c3>>, out |-> Ok(HexEncode(Assemble(m, c1, c2, c3)))]
        Pass(data, p1, p2, t) ==
            CASE Computed(t) ->
                IF is_all_zero(t) THEN [parts |-> none, out |-> Panic("retry", << >>)]
                ELSE IF Len(t) < Len(data)
                THEN [parts |-> none, out |-> Panic(ErrIndex, << >>)]
                ELSE Written(EncodeC1(p1[1], p1[2]), XorBytes(data, t),
                             Tag(p2[1], data, p2[2]))
        Points(data, p1, p2) ==
            CASE Computed(<<data, p1, p2>>) ->
                Pass(data, p1, p2,
                     kdf(to_bytes_be(p2[1]) \o to_bytes_be(p2[2]), Len(data)))
    IN Points(as_bytes(str), scalar_base_multiply(k), EccScalarMultiply(Q[1], Q[2], k))

(***************************************************************************)
(* SM2 decryption                                                          *)
(***************************************************************************)
\* whether the slices that split the decoded data are in range
SplitInRange(m, len) ==
    IF m = "C1C3C2" THEN len >= (2 * CoordLen) + HashLen
    ELSE len >= HashLen /\ len - HashLen >= 2 * CoordLen

\* the split of the decoded data (tag byte removed) at fixed offsets
SplitC1(m, data) == Slice(data, 0, 2 * CoordLen)

SplitC2(m, data) ==
    IF m = "C1C3C2" THEN Slice(data, (2 * CoordLen) + HashLen, Len(data))
    ELSE Slice(data, 2 * CoordLen, Len(data) - HashLen)

SplitC3(m, data) ==
    IF m = "C1C3C2" THEN Slice(data, 2 * CoordLen, (2 * CoordLen) + HashLen)
    ELSE Slice(data, Len(data) - HashLen, Len(data))

\* a comparison that lets every tag through
TagNeverDiffers(h, c3) == FALSE

\* hash != c3
TagDiffers(h, c3) == h # c3

\* Decryptor::execute from the split on
DecryptSplit(d, c1, c2, c3) ==
    LET x1 == from_bytes_be(Slice(c1, 0, CoordLen))
        y1 == from_bytes_be(Slice(c1, CoordLen, Len(c1)))
        Check(p2, recovered) ==
            IF TagDiffers(Tag(p2[1], recovered, p2[2]), c3) THEN Panic(ErrHash, << >>)
            ELSE Ok(from_utf8_lossy(recovered))
        Stream(p2, t) ==
            CASE Computed(t) ->
                IF is_all_zero(t) THEN Panic(ErrInvalid, << >>)
                ELSE IF Len(t) < Len(c2) THEN Panic(ErrIndex, << >>)
                ELSE Check(p2, XorBytes(c2, t))
        Point(p2) ==
            CASE Computed(<<c1, c2, c3, p2>>) ->
                Stream(p2, kdf(to_bytes_be(p2[1]) \o to_bytes_be(p2[2]), Len(c2)))
    IN Point(EccScalarMultiply(x1, y1, d))

\* Decryptor::execute
Decrypt(d, m, str) ==
    LET Split(data) ==
            IF ~SplitInRange(m, Len(data)) THEN Panic(ErrIndex, << >>)
            ELSE DecryptSplit(d, SplitC1(m, data), SplitC2(m, data), SplitC3(m, data))
    IN IF ~StartsWith04(str) THEN Panic(ErrInvalid, << >>)
       ELSE IF HexDecodeErr(str) THEN Panic(ErrNotHex, << >>)
       ELSE Split(Tail(HexDecode(str)))

(***************************************************************************)
(* SM2 signatures                                                          *)
(***************************************************************************)
\* the default user identifier "1234567812345678"
UID == <<49, 50, 51, 52, 53, 54, 55, 56, 49, 50, 51, 52, 53, 54, 55, 56>>

\* the two bytes of the bit length of UID
Entl ==
    LET r == Len(UID) * 8
    IN <<(r \div 256) % 256, r % 256>>

\* what Crypto::digest hashes; the source binds a and b both to e.a
DigestPreimage(Q) ==
    LET a  == to_bytes_be(EC_A)
        b  == to_bytes_be(EC_A)
        gx == to_bytes_be(EC_GX)
        gy == to_bytes_be(EC_GY)
        px == to_32_bytes(to_bytes_be(Q[1]))
        py == to_32_bytes(to_bytes_be(Q[2]))
    IN Entl \o UID \o a \o b \o gx \o gy \o px \o py

\* Crypto::digest
digest(Q) == hash(DigestPreimage(Q))

\* e = hash(Z_A || M) as an integer
MessageDigest(hashZa, str) == from_bytes_be(hash(hashZa \o as_bytes(str)))

\* EllipticBuilder::point_add: the sum of two affine points by one Jacobian
\* add followed by to-affine
point_add(P1, P2) ==
    AffineRestore(to_affine_point(
        JacobianAdd(to_jacobian(<<transform(P1[1]), transform(P1[2])>>),
                    to_jacobian(<<transform(P2[1]), transform(P2[2])>>))))

\* the first continue of the loop of Signer::sign
RestartOnR(r, k) == r = 0 \/ r + k = EC_N

\* a loop that never restarts on s
RestartOnSNever(s) == FALSE

\* the second continue of the loop of Signer::sign
RestartOnS(s) == s = 0

\* one pass of the loop of Signer::sign with the nonce k: (r, s), or "retry"
\* for the continue of r = 0, r + k = n or s = 0.  The product a * b is taken
\* on a reduced modulo n, which leaves its residue unchanged.
SignPass(d, e, k) ==
    LET S(r) ==
            LET a == k - (d * r)
                b == extended_gcd_x(d + 1, EC_N) % EC_N
            IN ((a % EC_N) * b) % EC_N
        WithS(r, s) ==
            IF RestartOnS(s) THEN Panic("retry", <<0, 0>>) ELSE Ok(<<r, s>>)
        WithR(r) ==
            IF RestartOnR(r, k) THEN Panic("retry", <<0, 0>>)
            ELSE WithS(r, S(r))
    IN WithR((e + scalar_base_multiply(k)[1]) % EC_N)

\* a verdict: the boolean, and how many scalar multiplications were made
Verdict(b, count) == [ok |-> TRUE, val |-> b, err |-> "none", mults |-> count]

\* a range check that lets zero through
InRangeOrZero(v) == ~(v > EC_N - 1)

\* 1 <= v <= n - 1
InRange(v) == ~(v < 1 \/ v > EC_N - 1)

\* Verifier::verify
Verify(Q, hashZa, str, r, s) ==
    LET Accept(e, x) == Verdict(((e + x) % EC_N) = r, 2)
        Sum(p1, p2) ==
            CASE Computed(<<p1, p2>>) ->
                Accept(MessageDigest(hashZa, str), point_add(p1, p2)[1])
        WithT(t) ==
            IF t = 0 THEN Verdict(FALSE, 0)
            ELSE IF BaseMultiplyPanics(s)
            THEN [ok |-> FALSE, val |-> FALSE, err |-> ErrIndex, mults |-> 1]
            ELSE Sum(scalar_base_multiply(s), EccScalarMultiply(Q[1], Q[2], t))
    IN IF ~InRange(r) THEN Verdict(FALSE, 0)
       ELSE IF ~InRange(s) THEN Verdict(FALSE, 0)
       ELSE WithT((r + s) % EC_N)

(***************************************************************************)
(* SM2 keys in hex                                                         *)
(***************************************************************************)
ErrKeyCoords == "The public key is error, x and y coordinates must be 32 bytes."

ErrKeyLength == "The uncompressed public key's length must be 130."

ErrKeyPrefix == "The compressed public key is invalid."

ErrKeyHex == "The public key must be composed of hex chars."

\* PublicKey::encode
PublicKeyEncode(P) ==
    LET Key(x, y) ==
            IF Len(x) # CoordLen \/ Len(y) # CoordLen THEN Panic(ErrKeyCoords, << >>)
            ELSE Ok(HexEncode(<<4>> \o x \o y))
    IN Key(to_bytes_be(P[1]), to_bytes_be(P[2]))

ErrPrkLength == "The private key is error, it must be 32 bytes."

\* PrivateKey::encode
PrivateKeyEncode(d) ==
    LET Key(bytes) ==
            IF Len(bytes) # CoordLen THEN Panic(ErrPrkLength, << >>)
            ELSE Ok(HexEncode(bytes))
    IN Key(to_bytes_be(d))

\* PublicKey::decode
PublicKeyDecode(key) ==
    LET Point(data) ==
            IF Len(data) < CoordLen THEN Panic(ErrIndex, <<0, 0>>)
            ELSE Ok(<<from_bytes_be(Slice(data, 0, CoordLen)),
                      from_bytes_be(Slice(data, CoordLen, Len(data)))>>)
        Trimmed(str) ==
            IF HexDecodeErr(str) THEN Panic(ErrKeyHex, <<0, 0>>)
            ELSE Point(HexDecode(str))
    IN IF Len(key) # 2 * (1 + (2 * CoordLen)) THEN Panic(ErrKeyLength, <<0, 0>>)
       ELSE IF ~StartsWith04(key) THEN Panic(ErrKeyPrefix, <<0, 0>>)
       ELSE Trimmed(TrimStartMatches04(key))

(***************************************************************************)
(* SM4.  The block cipher is a Feistel network on Sm4Block one-byte words  *)
(* whose decryption runs the round keys in reverse; the modes are the      *)
(* source's, on blocks of Sm4Block bytes.                                  *)
(***************************************************************************)
Sm4Block == 4

Sm4Rounds == 8

\* the round key of round i
Sm4RoundKey(key, i) == (((key[(i % Sm4Block) + 1] * 5) + (i * 29)) + 163) % 256

\* the round transformation: a non-linear byte map
Sm4T(x) == (((x * x) + (3 * x)) + 7) % 256

\* one round: the new word is the first word xored with T of the other three
\* and the round key
Sm4Round(X, rk) ==
    <<X[2], X[3], X[4], Xor8(X[1], Sm4T(Xor8(Xor8(Xor8(X[2], X[3]), X[4]), rk)))>>

\* the rounds, then the words in reverse order
RECURSIVE Sm4Crypt(_, _, _, _)
Sm4Crypt(X, key, i, decrypting) ==
    IF ~Computed(X) \/ i = Sm4Rounds THEN <<X[4], X[3], X[2], X[1]>>
    ELSE Sm4Crypt(Sm4Round(X, Sm4RoundKey(key, IF decrypting THEN (Sm4Rounds - 1) - i ELSE i)),
                  key, i + 1, decrypting)

\* Crypto::encrypt on one block
Sm4Encrypt(key, data) == Sm4Crypt(data, key, 0, FALSE)

\* Crypto::decrypt on one block
Sm4Decrypt(key, data) == Sm4Crypt(data, key, 0, TRUE)

\* sm4::xor
xor(a, b) == << >> \o [i \in 1..Sm4Block |-> Xor8(a[i], b[i])]

\* [v; count]
Fill(v, count) == << >> \o [i \in 1..count |-> v]

\* block i (from 0) of data
BlockAt(data, i) == Slice(data, i * Sm4Block, (i + 1) * Sm4Block)

\* the final partial block: data[quotients * 16 + i] ^ c[i] for i < remainder
XorTail(data, c) ==
    << >> \o [i \in 1..(Len(data) % Sm4Block) |->
                Xor8(data[((Len(data) \div Sm4Block) * Sm4Block) + i], c[i])]

ErrCbcLength == "The cipher's length must be a multiple of 16 bytes."

ErrSubtract == "attempt to subtract with overflow"

\* a padding byte that counts the bytes present instead of the bytes missing
PadByteOfRemainder(remainder) == remainder

\* a padding of zero bytes
PadByteZero(remainder) == 0

\* the padding byte of cbc: (16 - remainder)
PadByte(remainder) == Sm4Block - remainder

\* the for loop of cbc encrypt_bytes: <<buf, out>>
RECURSIVE CbcEncryptLoop(_, _, _, _, _)
CbcEncryptLoop(key, data, i, buf, out) ==
    LET Chain(c) == CbcEncryptLoop(key, data, i + 1, c, out \o c)
    IN IF ~Computed(<<buf, out>>) \/ i = Len(data) \div Sm4Block THEN <<buf, out>>
       ELSE Chain(Sm4Encrypt(key, xor(buf, BlockAt(data, i))))

\* cbc::CryptoMode::encrypt_bytes
CbcEncryptBytes(key, iv, data) ==
    LET quotients == Len(data) \div Sm4Block
        remainder == Len(data) % Sm4Block
        last == IF remainder # 0
                THEN Slice(data, quotients * Sm4Block, Len(data))
                         \o Fill(PadByte(remainder), Sm4Block - remainder)
                ELSE Fill(Sm4Block, Sm4Block)
        Close(st) == st[2] \o Sm4Encrypt(key, xor(st[1], last))
    IN Close(CbcEncryptLoop(key, data, 0, iv, << >>))

\* the for loop of cbc decrypt_bytes: <<buf, out>>
RECURSIVE CbcDecryptLoop(_, _, _, _, _)
CbcDecryptLoop(key, data, i, buf, out) ==
    IF ~Computed(<<buf, out>>) \/ i = Len(data) \div Sm4Block THEN <<buf, out>>
    ELSE CbcDecryptLoop(key, data, i + 1, BlockAt(data, i),
                        out \o xor(buf, Sm4Decrypt(key, BlockAt(data, i))))

\* cbc::CryptoMode::decrypt_bytes
CbcDecryptBytes(key, iv, data) ==
    LET Strip(out) ==
            IF Len(data) = 0 THEN Panic(ErrIndex, << >>)
            ELSE IF out[Len(data)] > Len(data) THEN Panic(ErrSubtract, << >>)
            ELSE Ok(SubSeq(out, 1, Len(data) - out[Len(data)]))
    IN IF Len(data) % Sm4Block # 0 THEN Panic(ErrCbcLength, << >>)
       ELSE Strip(CbcDecryptLoop(key, data, 0, iv, << >>)[2])

\* the for loop of cfb encrypt_bytes: <<buf, out>>
RECURSIVE CfbEncryptLoop(_, _, _, _, _)
CfbEncryptLoop(key, data, i, buf, out) ==
    LET Chain(b) == CfbEncryptLoop(key, data, i + 1, b, out \o b)
    IN IF ~Computed(<<buf, out>>) \/ i = Len(data) \div Sm4Block THEN <<buf, out>>
       ELSE Chain(xor(Sm4Encrypt(key, buf), BlockAt(data, i)))

\* cfb::CryptoMode::encrypt_bytes
CfbEncryptBytes(key, iv, data) ==
    LET Close(st) == st[2] \o XorTail(data, Sm4Encrypt(key, st[1]))
    IN Close(CfbEncryptLoop(key, data, 0, iv, << >>))

\* the for loop of cfb decrypt_bytes: <<buf, out>>
RECURSIVE CfbDecryptLoop(_, _, _, _, _)
CfbDecryptLoop(key, data, i, buf, out) ==
    IF ~Computed(<<buf, out>>) \/ i = Len(data) \div Sm4Block THEN <<buf, out>>
    ELSE CfbDecryptLoop(key, data, i + 1, BlockAt(data, i),
                        out \o xor(Sm4Encrypt(key, buf), BlockAt(data, i)))

\* cfb::CryptoMode::decrypt_bytes
CfbDecryptBytes(key, iv, data) ==
    LET Close(st) == st[2] \o XorTail(data, Sm4Encrypt(key, st[1]))
    IN Close(CfbDecryptLoop(key, data, 0, iv, << >>))

\* the for loop of ofb encrypt_bytes: <<buff, out>>
RECURSIVE OfbEncryptLoop(_, _, _, _, _)
OfbEncryptLoop(key, data, i, buff, out) ==
    LET Chain(k) == OfbEncryptLoop(key, data, i + 1, k, out \o xor(BlockAt(data, i), k))
    IN IF ~Computed(<<buff, out>>) \/ i = Len(data) \div Sm4Block THEN <<buff, out>>
       ELSE Chain(Sm4Encrypt(key, buff))

\* ofb::CryptoMode::encrypt_bytes
OfbEncryptBytes(key, iv, data) ==
    LET Close(st) == st[2] \o XorTail(data, Sm4Encrypt(key, st[1]))
    IN Close(OfbEncryptLoop(key, data, 0, iv, << >>))

\* ofb::CryptoMode::decrypt_bytes
OfbDecryptBytes(key, iv, data) == OfbEncryptBytes(key, iv, data)

\* a counter whose last byte wraps around without a carry
IncrementCounterNoCarry(buff, i) ==
    [buff EXCEPT ![Sm4Block] = (buff[Sm4Block] + 1) % 256]

\* the counter plus one: big-endian, the carry running up from the last byte
RECURSIVE IncrementCounter(_, _)
IncrementCounter(buff, i) ==
    IF i = Sm4Block THEN buff
    ELSE IF buff[Sm4Block - i] = 255
    THEN IncrementCounter([buff EXCEPT ![Sm4Block - i] = 0], i + 1)
    ELSE [buff EXCEPT ![Sm4Block - i] = buff[Sm4Block - i] + 1]

\* the for loop of ctr encrypt_bytes: <<buff, out>>
RECURSIVE CtrEncryptLoop(_, _, _, _, _)
CtrEncryptLoop(key, data, i, buff, out) ==
    IF ~Computed(<<buff, out>>) \/ i = Len(data) \div Sm4Block THEN <<buff, out>>
    ELSE CtrEncryptLoop(key, data, i + 1, IncrementCounter(buff, 0),
                        out \o xor(Sm4Encrypt(key, buff), BlockAt(data, i)))

\* ctr::CryptoMode::encrypt_bytes
CtrEncryptBytes(key, iv, data) ==
    LET Close(st) == st[2] \o XorTail(data, Sm4Encrypt(key, st[1]))
    IN Close(CtrEncryptLoop(key, data, 0, iv, << >>))

\* ctr::CryptoMode::decrypt_bytes
CtrDecryptBytes(key, iv, data) == CtrEncryptBytes(key, iv, data)

\* Cryptographer::encrypt_bytes of the mode instance m
encrypt_bytes(m, key, iv, data) ==
    CASE m = "cbc" -> CbcEncryptBytes(key, iv, data)
      [] m = "cfb" -> CfbEncryptBytes(key, iv, data)
      [] m = "ofb" -> OfbEncryptBytes(key, iv, data)
      [] m = "ctr" -> CtrEncryptBytes(key, iv, data)

\* Cryptographer::decrypt_bytes of the mode instance m
decrypt_bytes(m, key, iv, data) ==
    CASE m = "cbc" -> CbcDecryptBytes(key, iv, data)
      [] m = "cfb" -> Ok(CfbDecryptBytes(key, iv, data))
      [] m = "ofb" -> Ok(OfbDecryptBytes(key, iv, data))
      [] m = "ctr" -> Ok(CtrDecryptBytes(key, iv, data))

(***************************************************************************)
(* State.  A key pair, then per subsystem the inputs and the results of    *)
(* its operations; pc is the stage the run has reached.                    *)
(***************************************************************************)
VARIABLES
    pc,          \* the stage reached
    prk,         \* PrivateKey: d
    puk,         \* PublicKey: (x, y)
    mode,        \* Crypto.mode: "C1C3C2" or "C1C2C3"
    plain,       \* the plaintext or message, a str
    nonce,       \* the k the loop of encrypt or sign ended with
    written,     \* the c1, c2, c3 the encryptor assembled
    encrypted,   \* what Encryptor::execute returned
    cipher,      \* the hex string handed to Decryptor::execute
    decrypted,   \* what Decryptor::execute returned
    za,          \* Signer.hash / Verifier.hash
    zaPreimage,  \* the bytes Crypto::digest hashed
    signature,   \* what Signer::sign returned: (r, s)
    candidate,   \* the (r, s) and message handed to Verifier::verify
    verdict,     \* what Verifier::verify returned
    kdfData,     \* kdf: data
    kdfLen,      \* kdf: len
    kdfOut,      \* kdf: result
    sm4Mode,     \* which of cbc, cfb, ofb, ctr
    sm4Key,      \* CryptoMode.key
    sm4Iv,       \* CryptoMode.iv
    sm4Plain,    \* the bytes handed to encrypt_bytes
    sm4Cipher,   \* what encrypt_bytes returned
    sm4Out,      \* what decrypt_bytes returned
    keyHex,      \* what PublicKey::encode returned
    keyDecoded,  \* what PublicKey::decode returned
    seed,        \* the integer the random source handed to gen_private_key
    prkHex,      \* what PrivateKey::encode returned
    restarts,    \* how many times the loop of Signer::sign has restarted
    sm3Input,    \* the bytes handed to sm3::hash
    sm3Data,     \* Crypto.data
    sm3Blocks,   \* Crypto.blocks
    sm3Digest,   \* what Crypto::hash returned
    once,        \* the state of INITIALIZER
    elliptic,    \* the static ELLIPTIC: null, or the boxed P256Elliptic
    initRuns,    \* how many times the closure of call_once has stored a box
    at,          \* per thread, where it stands in P256Elliptic::init
    got,         \* per thread, what its last call of init returned
    calls,       \* per thread, the calls of init it has begun
    addP1,       \* the receiver of P256JacobianPoint::add
    addP2,       \* its argument
    addOut,      \* what it returned
    nafScalar,   \* the scalar handed to w_naf
    nafDigits,   \* what w_naf returned
    redScalar,   \* the scalar handed to Elliptic::scalar_reduce
    redOut,      \* what it returned
    selIndex,    \* the index handed to P256AffinePoint::select
    selTable,    \* the table handed to it
    selOut,      \* what it returned
    copySelf,    \* the receiver of copy_from_with_conditional
    copySource,  \* its source
    copyMask,    \* its mask
    copyOut,     \* what it returned
    payN,        \* the integer handed to PayloadHelper::transform
    payLimbs,    \* Payload.data, the limbs it returned
    payBack,     \* what PayloadHelper::restore returned for them
    mulPoint,    \* self of P256AffinePoint::multiply
    mulScalar,   \* its scalar
    mulTable,    \* precomp, row i at index i + 1
    mulDigits,   \* w_naf(scalar)
    mulI,        \* the digit the drive loop is at, from 1
    mulP1,       \* the accumulator p1
    mulCounter,  \* counter, the doublings owed for zero digits
    mulMask,     \* n_is_infinity_mask
    mulDoubles,  \* calls of p1.double() made once the accumulator holds a point
    mulOut,      \* the affine point returned
    combScalar,  \* the scalar of P256BasePoint::multiply
    combBytes,   \* its little-endian byte array
    combI,       \* i of the for loop
    combJ,       \* j of the while loop
    combOffset,  \* offset into BASE_TABLE, in table entries
    combJac,     \* jacobian, the accumulator
    combMask,    \* n_is_infinity_mask
    combReads,   \* the bit positions handed to bit_of_scalar so far
    combOut      \* the affine point returned

keyVars == <<prk, puk>>

cryptVars == <<mode, written, encrypted, cipher, decrypted>>

signVars == <<za, zaPreimage, signature, candidate, verdict>>

kdfVars == <<kdfData, kdfLen, kdfOut>>

sm4Vars == <<sm4Mode, sm4Key, sm4Iv, sm4Plain, sm4Cipher, sm4Out>>

hexVars == <<keyHex, keyDecoded>>

genVars == <<seed, prkHex>>

loopVars == <<restarts>>

sm3Vars == <<sm3Input, sm3Data, sm3Blocks, sm3Digest>>

initVars == <<once, elliptic, initRuns, at, got, calls>>

addVars == <<addP1, addP2, addOut>>

nafVars == <<nafScalar, nafDigits>>

redVars == <<redScalar, redOut>>

selVars == <<selIndex, selTable, selOut, copySelf, copySource, copyMask, copyOut>>

payVars == <<payN, payLimbs, payBack>>

mulVars == <<mulPoint, mulScalar, mulTable, mulDigits, mulI, mulP1, mulCounter, mulMask, mulDoubles, mulOut>>

combVars == <<combScalar, combBytes, combI, combJ, combOffset, combJac, combMask, combReads, combOut>>

lateVars == <<sm3Vars, initVars, addVars, nafVars, redVars, selVars, payVars, mulVars, combVars>>

otherVars == <<genVars, loopVars, lateVars>>

vars == <<pc, keyVars, plain, nonce, cryptVars, signVars, kdfVars, sm4Vars, hexVars, otherVars>>

None == Panic("not run", << >>)

NoneBool == [ok |-> FALSE, val |-> FALSE, err |-> "not run", mults |-> 0]

\* the parts of the state a specification does not use
IdleKeys == prk = 0 /\ puk = <<0, 0>>

IdleText == plain = << >> /\ nonce = 0

IdleCrypt ==
    /\ mode = "C1C3C2"
    /\ written = <<<< >>, << >>, << >>>>
    /\ encrypted = None
    /\ cipher = << >>
    /\ decrypted = None

IdleSign ==
    /\ za = << >>
    /\ zaPreimage = << >>
    /\ signature = <<0, 0>>
    /\ candidate = [r |-> 0, s |-> 0, plain |-> << >>]
    /\ verdict = NoneBool

IdleKdf == kdfData = << >> /\ kdfLen = 0 /\ kdfOut = << >>

IdleSm4 ==
    /\ sm4Mode = "cbc"
    /\ sm4Key = << >>
    /\ sm4Iv = << >>
    /\ sm4Plain = << >>
    /\ sm4Cipher = << >>
    /\ sm4Out = None

IdleHex == keyHex = None /\ keyDecoded = Panic("not run", <<0, 0>>)

IdleGen == seed = 0 /\ prkHex = None

IdleLoop == restarts = 0

IdleSm3 == sm3Input = << >> /\ sm3Data = << >> /\ sm3Blocks = << >> /\ sm3Digest = << >>

NumThreads == 3

Threads == 1..NumThreads

IdleInit ==
    /\ once = "incomplete"
    /\ elliptic = None
    /\ initRuns = 0
    /\ at = [t \in Threads |-> "idle"]
    /\ got = [t \in Threads |-> None]
    /\ calls = [t \in Threads |-> 0]

IdleAdd == addP1 = <<0, 0, 0>> /\ addP2 = <<0, 0, 0>> /\ addOut = <<0, 0, 0>>

IdleNaf == nafScalar = 0 /\ nafDigits = << >>

IdleRed ==
    redScalar = 0 /\ redOut = None

IdleSel ==
    /\ selIndex = 0 /\ selTable = << >> /\ selOut = << >>
    /\ copySelf = <<0, 0, 0>> /\ copySource = <<0, 0, 0>> /\ copyMask = 0 /\ copyOut = << >>

IdlePay ==
    payN = 0 /\ payLimbs = << >> /\ payBack = 0

IdleMul ==
    /\ mulPoint = << >> /\ mulScalar = 0 /\ mulTable = << >> /\ mulDigits = << >>
    /\ mulI = 0 /\ mulP1 = << >> /\ mulCounter = 0 /\ mulMask = 0 /\ mulDoubles = 0
    /\ mulOut = << >>

IdleComb ==
    /\ combScalar = 0 /\ combBytes = << >> /\ combI = 0 /\ combJ = 0 /\ combOffset = 0
    /\ combJac = << >> /\ combMask = 0 /\ combReads = << >> /\ combOut = << >>

IdleLate == IdleSm3 /\ IdleInit /\ IdleAdd /\ IdleNaf /\ IdleRed /\ IdleSel /\ IdlePay /\ IdleMul /\ IdleComb

IdleOther == IdleGen /\ IdleLoop /\ IdleLate

(***************************************************************************)
(* Inputs of the runs                                                      *)
(***************************************************************************)
KeyCount == 2

NonceCount == 4

MaxPlainLen == 9

\* raw random integers handed to gen_private_key
KeySeeds == <<4, 46144, 20000, 7, 31337>>

\* raw random integers handed to random(1, n - 1)
NonceSeeds == <<1, 75, 46140, 46145, 0, 102, 19000>>

\* "Hello, SM2 world" with an accented e, a two-byte character
Text == <<72, 233, 108, 108, 111, 44, 32, 83, 77, 50, 32, 119, 111, 114, 108, 100>>

PrivateKeys == {gen_private_key(KeySeeds[i]) : i \in 1..KeyCount}

Plaintexts == {SubSeq(Text, 1, l) : l \in 0..MaxPlainLen}

Modes == {"C1C3C2", "C1C2C3"}

\* what may reach the decryptor in place of the hex string str
Deliveries(str) ==
    LET last == Len(str)
        mid  == (2 * (1 + (2 * CoordLen))) + 1
    IN {str,
        [str EXCEPT ![2] = 5],
        [str EXCEPT ![last] = NotHex],
        [str EXCEPT ![last] = (str[last] + 1) % 16],
        [str EXCEPT ![mid] = (str[mid] + 1) % 16],
        SubSeq(str, 1, last - 1),
        SubSeq(str, 1, 6)}

(***************************************************************************)
(* SM2 encryption and decryption of one plaintext                          *)
(***************************************************************************)
InitCrypt ==
    /\ pc = "ready"
    /\ prk \in PrivateKeys
    /\ puk = gen_public_key(prk)
    /\ mode \in Modes
    /\ plain \in Plaintexts
    /\ nonce = 0
    /\ written = <<<< >>, << >>, << >>>>
    /\ encrypted = None
    /\ cipher = << >>
    /\ decrypted = None
    /\ IdleSign /\ IdleKdf /\ IdleSm4 /\ IdleHex /\ IdleOther

\* Encryptor::execute: the loop ends with the first nonce that is not retried
EncryptorExecute ==
    /\ pc = "ready"
    /\ \E i \in 1..NonceCount :
          \E r \in {EncryptPass(puk, mode, plain, random(1, EC_N - 1, NonceSeeds[i]))} :
             /\ r.out.err # "retry"
             /\ nonce' = random(1, EC_N - 1, NonceSeeds[i])
             /\ written' = r.parts
             /\ encrypted' = r.out
             /\ pc' = IF r.out.ok THEN "encrypted" ELSE "panicked"
    /\ UNCHANGED <<otherVars, keyVars, plain, mode, cipher, decrypted, signVars, kdfVars, sm4Vars, hexVars>>

\* Decryptor::execute on what was delivered
DecryptorExecute ==
    /\ pc = "encrypted"
    /\ \E str \in Deliveries(encrypted.val) :
          /\ cipher' = str
          /\ decrypted' = Decrypt(prk, mode, str)
    /\ pc' = "decrypted"
    /\ UNCHANGED <<otherVars, keyVars, plain, nonce, mode, written, encrypted, signVars, kdfVars,
                   sm4Vars, hexVars>>

Next == EncryptorExecute \/ DecryptorExecute

Spec == InitCrypt /\ [][Next]_vars


(***************************************************************************)
(* Properties of encryption and decryption                                 *)
(***************************************************************************)
\* the decoded bytes of the delivered hex string, tag byte removed
Delivered == Tail(HexDecode(cipher))

\* the delivered string gets past the prefix test, the hex decoding and the
\* slices of the split
Parses == StartsWith04(cipher) /\ ~HexDecodeErr(cipher) /\ SplitInRange(mode, Len(Delivered))

\* (x2, y2) = [d]C1 for the C1 field of the delivered string
SharedPoint ==
    LET c1 == SplitC1(mode, Delivered)
    IN EccScalarMultiply(from_bytes_be(Slice(c1, 0, CoordLen)),
                         from_bytes_be(Slice(c1, CoordLen, Len(c1))), prk)

\* the key stream for the C2 field of the delivered string
KeyStream ==
    kdf(to_bytes_be(SharedPoint[1]) \o to_bytes_be(SharedPoint[2]),
        Len(SplitC2(mode, Delivered)))

\* the decryptor gets as far as comparing the tag
ReachesTag ==
    Parses /\ ~is_all_zero(KeyStream) /\ Len(KeyStream) >= Len(SplitC2(mode, Delivered))

\* H256(x2 || M' || y2) for the M' recovered from the delivered string
RecomputedTag ==
    Tag(SharedPoint[1], XorBytes(SplitC2(mode, Delivered), KeyStream), SharedPoint[2])

\* C1: decrypting what the encryptor returned, with the matching private key
\* and the same ordering, gives back the plaintext, for every nonce and for a
\* plaintext of any length; in particular the encryptor returns.
C1_RoundTrip ==
    /\ pc # "panicked"
    /\ (pc = "decrypted" /\ cipher = encrypted.val) => decrypted = Ok(plain)

\* C6: the decryptor returns a plaintext only when the tag recomputed from the
\* recovered bytes equals the C3 field of what was delivered; when they differ
\* it fails with the hash-validation error, which carries no plaintext and is
\* neither of the malformed-input errors, and those are what a missing 04
\* prefix and a non-hex string produce.
C6_TagGate ==
    pc = "decrypted" =>
        /\ decrypted.ok => (ReachesTag /\ RecomputedTag = SplitC3(mode, Delivered))
        /\ (ReachesTag /\ RecomputedTag # SplitC3(mode, Delivered))
               => (decrypted = Panic(ErrHash, << >>)
                   /\ decrypted.err \notin {ErrInvalid, ErrNotHex})
        /\ ~StartsWith04(cipher) => decrypted = Panic(ErrInvalid, << >>)
        /\ (StartsWith04(cipher) /\ HexDecodeErr(cipher)) => decrypted = Panic(ErrNotHex, << >>)

\* a delivered string that differs from the one encrypted in its tag or its
\* body, parses, and is turned down by the tag comparison
C6_TamperedRejected ==
    /\ pc = "decrypted"
    /\ cipher # encrypted.val
    /\ ReachesTag
    /\ RecomputedTag # SplitC3(mode, Delivered)
    /\ decrypted.err = ErrHash

\* C9: the C1 the encryptor writes is the tag byte and two coordinates of
\* CoordLen bytes each, so that the decryptor's split at fixed offsets gives
\* back the C1, C2 and C3 the encryptor wrote.
C9_FixedOffsetSplit ==
    pc = "encrypted" =>
        LET data == Tail(HexDecode(encrypted.val))
        IN /\ Len(written[1]) = 1 + (2 * CoordLen)
           /\ SplitInRange(mode, Len(data))
           /\ <<4>> \o SplitC1(mode, data) = written[1]
           /\ SplitC2(mode, data) = written[2]
           /\ SplitC3(mode, data) = written[3]


(***************************************************************************)
(* SM2 signing and verification of one message                             *)
(***************************************************************************)
SignNonceCount == 3

\* raw random integers handed to random(1, n - 1) by the signing loop
SignSeeds == <<1, 4392, 37637, 46145, 9000>>

\* a scalar that does not fit the byte array of the base-point multiplication
Oversized == 65536

\* what may reach the verifier in place of the signature sig on str
Candidates(sig, str) ==
    LET honest == [r |-> sig[1], s |-> sig[2], plain |-> str]
    IN {honest,
        [honest EXCEPT !.r = 0],
        [honest EXCEPT !.s = 0],
        [honest EXCEPT !.r = EC_N],
        [honest EXCEPT !.s = Oversized],
        [honest EXCEPT !.s = EC_N - sig[1]],
        [honest EXCEPT !.plain = Append(str, 33)]}

InitSign ==
    /\ pc = "ready"
    /\ prk \in PrivateKeys
    /\ puk = gen_public_key(prk)
    /\ plain \in Plaintexts
    /\ nonce = 0
    /\ IdleSign /\ IdleCrypt /\ IdleKdf /\ IdleSm4 /\ IdleHex /\ IdleOther

\* Crypto::signer and Crypto::verifier: both keep digest(puk)
CryptoSigner ==
    /\ pc = "ready"
    /\ zaPreimage' = DigestPreimage(puk)
    /\ za' = digest(puk)
    /\ pc' = "keyed"
    /\ UNCHANGED <<otherVars, keyVars, plain, nonce, cryptVars, signature, candidate, verdict,
                   kdfVars, sm4Vars, hexVars>>

\* Signer::sign: the loop ends with the first nonce that is not retried
SignerSign ==
    /\ pc = "keyed"
    /\ \E i \in 1..SignNonceCount :
          \E sg \in {SignPass(prk, MessageDigest(za, plain),
                              random(1, EC_N - 1, SignSeeds[i]))} :
             /\ sg.ok
             /\ nonce' = random(1, EC_N - 1, SignSeeds[i])
             /\ signature' = sg.val
    /\ pc' = "signed"
    /\ UNCHANGED <<otherVars, keyVars, plain, cryptVars, za, zaPreimage, candidate, verdict,
                   kdfVars, sm4Vars, hexVars>>

\* Verifier::verify on what was delivered
VerifierVerify ==
    /\ pc = "signed"
    /\ \E c \in Candidates(signature, plain) :
          /\ candidate' = c
          /\ verdict' = Verify(puk, za, c.plain, c.r, c.s)
    /\ pc' = "verified"
    /\ UNCHANGED <<otherVars, keyVars, plain, nonce, cryptVars, za, zaPreimage, signature,
                   kdfVars, sm4Vars, hexVars>>

NextSign == CryptoSigner \/ SignerSign \/ VerifierVerify

SpecSign == InitSign /\ [][NextSign]_vars

\* the signature handed to the verifier is the one the signer returned, on
\* the message that was signed
HonestCandidate ==
    candidate = [r |-> signature[1], s |-> signature[2], plain |-> plain]

\* C2: a signature made by Signer::sign verifies under the matching public
\* key on the message that was signed, whichever nonce the loop accepted.
C2_SignThenVerify ==
    (pc = "verified" /\ HonestCandidate) => verdict = Verdict(TRUE, 2)

\* C5: Z_A is the hash of entl || U || a || b || gx || gy || xQ || yQ in that
\* order, the fourth field being the coefficient b, with entl = 0x0080 and U
\* the 16-byte default identifier.
C5_ZaPreimage ==
    pc \in {"keyed", "signed", "verified"} =>
        /\ Entl = <<0, 128>>
        /\ Len(UID) = 16
        /\ zaPreimage = Entl \o UID \o to_bytes_be(EC_A) \o to_bytes_be(EC_B)
                            \o to_bytes_be(EC_GX) \o to_bytes_be(EC_GY)
                            \o to_32_bytes(to_bytes_be(puk[1]))
                            \o to_32_bytes(to_bytes_be(puk[2]))
        /\ za = hash(zaPreimage)

\* C7: the verifier answers false, having made no scalar multiplication, when
\* r or s lies outside 1..n-1 or when (r + s) mod n is zero; and whatever
\* (r, s) it is handed it returns a boolean and does not panic.
C7_EarlyReject ==
    pc = "verified" =>
        /\ verdict.ok
        /\ verdict.val \in BOOLEAN
        /\ (\/ candidate.r \notin 1..(EC_N - 1)
            \/ candidate.s \notin 1..(EC_N - 1)
            \/ (candidate.r + candidate.s) % EC_N = 0)
               => verdict = Verdict(FALSE, 0)

\* a signature with s = 0 has been turned down before any multiplication
C7_ZeroRejected ==
    /\ pc = "verified"
    /\ candidate.s = 0
    /\ candidate.r \in 1..(EC_N - 1)
    /\ verdict = Verdict(FALSE, 0)

(***************************************************************************)
(* The loop of Signer::sign, one pass at a time                            *)
(***************************************************************************)
LoopSeedCount == 6

\* the number from which the count of restarts is no longer told apart
MaxRestarts == 3

\* raw random integers handed to random(1, n - 1); the second to the fifth
\* give r = 0, s = 0, r + k = n and s = 0 for the key 5 and some plaintext
LoopSeeds == <<1, 13078, 16909, 19502, 23082, 9000, 903>>

\* Crypto::signer done, Signer::sign entered
InitLoop ==
    /\ pc = "signing"
    /\ prk \in PrivateKeys
    /\ puk = gen_public_key(prk)
    /\ plain \in Plaintexts
    /\ nonce = 0
    /\ zaPreimage = DigestPreimage(puk)
    /\ za = digest(puk)
    /\ signature = <<0, 0>>
    /\ candidate = [r |-> 0, s |-> 0, plain |-> << >>]
    /\ verdict = NoneBool
    /\ restarts = 0
    /\ IdleCrypt /\ IdleKdf /\ IdleSm4 /\ IdleHex /\ IdleGen /\ IdleLate

\* a pass that ends in continue
SignRestart ==
    /\ pc = "signing"
    /\ \E i \in 1..LoopSeedCount :
          \E sg \in {SignPass(prk, MessageDigest(za, plain),
                              random(1, EC_N - 1, LoopSeeds[i]))} :
             /\ ~sg.ok
             /\ nonce' = random(1, EC_N - 1, LoopSeeds[i])
    /\ restarts' = IF restarts < MaxRestarts THEN restarts + 1 ELSE restarts
    /\ UNCHANGED <<pc, genVars, lateVars, keyVars, plain, cryptVars, signVars, kdfVars,
                   sm4Vars, hexVars>>

\* a pass that ends in break, and the return of Signature::new(r, s)
SignReturn ==
    /\ pc = "signing"
    /\ \E i \in 1..LoopSeedCount :
          \E sg \in {SignPass(prk, MessageDigest(za, plain),
                              random(1, EC_N - 1, LoopSeeds[i]))} :
             /\ sg.ok
             /\ nonce' = random(1, EC_N - 1, LoopSeeds[i])
             /\ signature' = sg.val
    /\ pc' = "signed"
    /\ UNCHANGED <<otherVars, keyVars, plain, cryptVars, za, zaPreimage, candidate, verdict,
                   kdfVars, sm4Vars, hexVars>>

NextLoop == SignRestart \/ SignReturn

SpecLoop == InitLoop /\ [][NextLoop]_vars

\* r = (e + x1) mod n for the nonce last drawn
DrawnR == (MessageDigest(za, plain) + scalar_base_multiply(nonce)[1]) % EC_N

\* the nonce last drawn is one the loop restarts on: r = 0, r + k = n, or
\* s = 0, that is k = d * r modulo n
DrawnRestarts ==
    LET Case(r) ==
            \/ r = 0
            \/ r + nonce = EC_N
            \/ (nonce - (prk * r)) % EC_N = 0
    IN Case(DrawnR)

\* C12: the signature returned has r and s in [1, n - 1], r + k # n and
\* s * (1 + d) = k - r * d modulo n for the nonce k of the last pass; the loop
\* restarts exactly on the nonces with r = 0, r + k = n or s = 0 and returns
\* on the first other one.
C12_SignatureRange ==
    /\ pc = "signed" =>
          /\ 1 <= signature[1] /\ signature[1] <= EC_N - 1
          /\ 1 <= signature[2] /\ signature[2] <= EC_N - 1
          /\ signature[1] + nonce # EC_N
          /\ signature[1] = DrawnR
          /\ (signature[2] * (1 + prk)) % EC_N = (nonce - (prk * signature[1])) % EC_N
          /\ ~DrawnRestarts
    /\ (pc = "signing" /\ restarts > 0) => DrawnRestarts

\* a signature returned after the loop has restarted
C12_ReturnedAfterRestart == pc = "signed" /\ restarts > 0

\* C18: the loop of Signer::sign keeps a count of its restarts and stops
\* with an error rather than drawing again, so the count of restarts stays
\* below MaxRestarts.
C18_RestartsBounded == restarts < MaxRestarts



(***************************************************************************)
(* The key derivation function on its own                                  *)
(***************************************************************************)
KdfPointCount == 6

MaxKdfLen == 9

\* x2 || y2 of the first multiples of the base point
KdfInputs ==
    {to_bytes_be(scalar_base_multiply(k)[1]) \o to_bytes_be(scalar_base_multiply(k)[2]) :
        k \in 1..KdfPointCount}

InitKdf ==
    /\ pc = "ready"
    /\ kdfData \in KdfInputs
    /\ kdfLen \in 0..MaxKdfLen
    /\ kdfOut = << >>
    /\ IdleKeys /\ IdleText /\ IdleCrypt /\ IdleSign /\ IdleSm4 /\ IdleHex /\ IdleOther

\* kdf(data, len)
KdfCall ==
    /\ pc = "ready"
    /\ kdfOut' = kdf(kdfData, kdfLen)
    /\ pc' = "derived"
    /\ UNCHANGED <<otherVars, keyVars, plain, nonce, cryptVars, signVars, kdfData, kdfLen,
                   sm4Vars, hexVars>>

NextKdf == KdfCall

SpecKdf == InitKdf /\ [][NextKdf]_vars

\* H256(Z || 1) || ... || H256(Z || blocks), the counter as four big-endian bytes
RECURSIVE KdfStream(_, _)
KdfStream(Z, blocks) ==
    IF blocks = 0 THEN << >>
    ELSE KdfStream(Z, blocks - 1) \o hash(Z \o to_bytes(blocks))

\* C4: kdf(Z, len) is exactly len bytes long: the first len bytes of the
\* hashes of Z with the counters 1, 2, ..., ceil(len / HashLen).
C4_KdfOutput ==
    pc = "derived" =>
        /\ Len(kdfOut) = kdfLen
        /\ kdfOut = SubSeq(KdfStream(kdfData, (kdfLen + (HashLen - 1)) \div HashLen),
                           1, kdfLen)

(***************************************************************************)
(* A public key written to hex and read back                               *)
(***************************************************************************)
EncodedKeyFirst == 61

EncodedKeyCount == 50

\* integers the random source may hand to gen_private_key: a run of small
\* ones, and the ends of the residues modulo n - 2
Seeds ==
    {EncodedKeyFirst + i : i \in 0..(EncodedKeyCount - 1)}
        \cup {0, 1000, EC_N - 3, EC_N - 2, EC_N - 1, EC_N, (2 * (EC_N - 2)) - 1}

\* KeyGenerator::new, before a key is drawn
InitKey ==
    /\ pc = "start"
    /\ seed \in Seeds
    /\ prkHex = None
    /\ keyHex = None
    /\ keyDecoded = Panic("not run", <<0, 0>>)
    /\ IdleKeys /\ IdleText /\ IdleCrypt /\ IdleSign /\ IdleKdf /\ IdleSm4 /\ IdleLoop
    /\ IdleLate

\* KeyGenerator::gen_key_pair
GenKeyPair ==
    /\ pc = "start"
    /\ \E d \in {gen_private_key(seed)} :
          /\ prk' = d
          /\ puk' = gen_public_key(d)
    /\ pc' = "ready"
    /\ UNCHANGED <<genVars, loopVars, lateVars, plain, nonce, cryptVars, signVars, kdfVars, sm4Vars,
                   hexVars>>

\* PrivateKey::encode of the generated key
PrkEncode ==
    /\ pc # "start"
    /\ prkHex = None
    /\ prkHex' = PrivateKeyEncode(prk)
    /\ UNCHANGED <<pc, seed, loopVars, lateVars, keyVars, plain, nonce, cryptVars, signVars, kdfVars,
                   sm4Vars, hexVars>>

\* PublicKey::encode
KeyEncode ==
    /\ pc = "ready"
    /\ keyHex' = PublicKeyEncode(puk)
    /\ pc' = IF keyHex'.ok THEN "encoded" ELSE "panicked"
    /\ UNCHANGED <<otherVars, keyVars, plain, nonce, cryptVars, signVars, kdfVars, sm4Vars, keyDecoded>>

\* PublicKey::decode of the encoded key
KeyDecode ==
    /\ pc = "encoded"
    /\ keyDecoded' = PublicKeyDecode(keyHex.val)
    /\ pc' = "decoded"
    /\ UNCHANGED <<otherVars, keyVars, plain, nonce, cryptVars, signVars, kdfVars, sm4Vars, keyHex>>

NextKey == GenKeyPair \/ PrkEncode \/ KeyEncode \/ KeyDecode

SpecKey == InitKey /\ [][NextKey]_vars

\* C10: a public key whose coordinates take CoordLen bytes each is read back
\* from its encoding unchanged, whatever the leading bytes of x, 0x04 included.
C10_KeyRoundTrip ==
    pc = "decoded" => keyDecoded = Ok(puk)

\* C11: for every key pair that key generation produces, both encodings
\* succeed and have their fixed width: PrivateKey::encode returns 2 * CoordLen
\* hex characters that hold d, and PublicKey::encode returns
\* 2 * (1 + 2 * CoordLen) hex characters that start with "04".
C11_FixedWidthEncoding ==
    /\ prkHex # None =>
          /\ prkHex.ok
          /\ Len(prkHex.val) = 2 * CoordLen
          /\ from_bytes_be(HexDecode(prkHex.val)) = prk
    /\ pc \in {"encoded", "panicked", "decoded"} =>
          /\ keyHex.ok
          /\ Len(keyHex.val) = 2 * (1 + (2 * CoordLen))
          /\ StartsWith04(keyHex.val)

\* C13: the private key that gen_private_key makes of the random integer is
\* (seed mod (n - 2)) + 1 and lies in [1, n - 2].
C13_PrivateKeyRange ==
    pc # "start" =>
        /\ prk = (seed % (EC_N - 2)) + 1
        /\ 1 <= prk /\ prk <= EC_N - 2

\* a key made of the largest residue: d = n - 2
C13_LargestKey == pc # "start" /\ seed = EC_N - 3 /\ prk = EC_N - 2


(***************************************************************************)
(* SM4 modes: one byte string encrypted and decrypted by one mode instance *)
(***************************************************************************)
MaxSm4Len == 9

Sm4Keys == {<<1, 35, 69, 103>>, <<254, 220, 186, 152>>}

\* the second and third make the counter of ctr carry and wrap around
Sm4Ivs == {<<1, 35, 69, 103>>, <<0, 0, 255, 255>>, <<255, 255, 255, 255>>}

\* bytes to encrypt; the padding byte values occur among them
Sm4Text == <<72, 4, 4, 4, 1, 0, 255, 3, 3, 3, 2, 2>>

InitSm4 ==
    /\ pc = "ready"
    /\ sm4Mode \in {"cbc", "cfb", "ofb", "ctr"}
    /\ sm4Key \in Sm4Keys
    /\ sm4Iv \in Sm4Ivs
    /\ sm4Plain \in {SubSeq(Sm4Text, 1, l) : l \in 0..MaxSm4Len}
    /\ sm4Cipher = << >>
    /\ sm4Out = None
    /\ IdleKeys /\ IdleText /\ IdleCrypt /\ IdleSign /\ IdleKdf /\ IdleHex /\ IdleOther

\* Cryptographer::encrypt_bytes
EncryptBytes ==
    /\ pc = "ready"
    /\ sm4Cipher' = encrypt_bytes(sm4Mode, sm4Key, sm4Iv, sm4Plain)
    /\ pc' = "enciphered"
    /\ UNCHANGED <<otherVars, keyVars, plain, nonce, cryptVars, signVars, kdfVars, hexVars,
                   sm4Mode, sm4Key, sm4Iv, sm4Plain, sm4Out>>

\* Cryptographer::decrypt_bytes on the same mode instance
DecryptBytes ==
    /\ pc = "enciphered"
    /\ sm4Out' = decrypt_bytes(sm4Mode, sm4Key, sm4Iv, sm4Cipher)
    /\ pc' = "deciphered"
    /\ UNCHANGED <<otherVars, keyVars, plain, nonce, cryptVars, signVars, kdfVars, hexVars,
                   sm4Mode, sm4Key, sm4Iv, sm4Plain, sm4Cipher>>

NextSm4 == EncryptBytes \/ DecryptBytes

SpecSm4 == InitSm4 /\ [][NextSm4]_vars

\* C3: in each of the modes cbc, cfb, ofb and ctr, decrypt_bytes of
\* encrypt_bytes of a byte string, on an instance built from the same key and
\* IV, is that byte string, whatever its length.
C3_ModeRoundTrip ==
    pc = "deciphered" => sm4Out = Ok(sm4Plain)

\* a cbc round trip of a whole number of blocks, which takes a full block of
\* padding
C3_CbcFullBlocks ==
    /\ pc = "deciphered"
    /\ sm4Mode = "cbc"
    /\ Len(sm4Plain) = 2 * Sm4Block
    /\ Len(sm4Cipher) = 3 * Sm4Block
    /\ sm4Out = Ok(sm4Plain)

\* the last block of a cbc ciphertext before its encryption: the decryption
\* of the last block, xored with the block before it, or with the IV
CbcLastBlock ==
    LET blocks == Len(sm4Cipher) \div Sm4Block
        Before(prev) == xor(prev, Sm4Decrypt(sm4Key, BlockAt(sm4Cipher, blocks - 1)))
    IN Before(IF blocks = 1 THEN sm4Iv ELSE BlockAt(sm4Cipher, blocks - 2))

\* C14: cbc encrypt_bytes of len bytes gives (len div B + 1) * B =
\* ceil((len + 1) / B) * B bytes, B the block size, and the last block before
\* encryption holds the rest of the plaintext followed by N copies of the
\* byte N, N = B - (len mod B), so 1 <= N <= B.
C14_CbcPadding ==
    (pc \in {"enciphered", "deciphered"} /\ sm4Mode = "cbc") =>
        LET len == Len(sm4Plain)
            N == Sm4Block - (len % Sm4Block)
            Padded(last) ==
                \A i \in 1..Sm4Block :
                    last[i] = IF i <= Sm4Block - N
                              THEN sm4Plain[((len \div Sm4Block) * Sm4Block) + i]
                              ELSE N
        IN /\ Len(sm4Cipher) = ((len \div Sm4Block) + 1) * Sm4Block
           /\ Len(sm4Cipher) = ((len + Sm4Block) \div Sm4Block) * Sm4Block
           /\ 1 <= N /\ N <= Sm4Block
           /\ Padded(CbcLastBlock)

\* cbc has encrypted one whole block and added a block of padding
C14_ExtraBlock ==
    /\ pc = "enciphered"
    /\ sm4Mode = "cbc"
    /\ Len(sm4Plain) = Sm4Block
    /\ Len(sm4Cipher) = 2 * Sm4Block
    /\ CbcLastBlock = Fill(Sm4Block, Sm4Block)

\* (iv + j) modulo 2^(8 * Sm4Block) as Sm4Block big-endian bytes, for a block
\* of four bytes: the sum is taken on the two low bytes and its carry on the
\* two high bytes
CounterPlus(iv, j) ==
    LET low == (256 * iv[3]) + iv[4] + j
        high == ((256 * iv[1]) + iv[2] + (low \div 65536)) % 65536
    IN <<high \div 256, high % 256, (low % 65536) \div 256, low % 256>>

\* C15: in ctr mode block j of the output is block j of the input xored with
\* E_K((IV + j) mod 2^(8B)), the counter being a big-endian integer of B
\* bytes that wraps to zeros after all 0xFF; the bytes after the last whole
\* block take the key stream of the next counter; decrypt_bytes is
\* encrypt_bytes.
C15_CtrKeyStream ==
    (pc \in {"enciphered", "deciphered"} /\ sm4Mode = "ctr") =>
        LET quotients == Len(sm4Plain) \div Sm4Block
            remainder == Len(sm4Plain) % Sm4Block
            Stream(j) == Sm4Encrypt(sm4Key, CounterPlus(sm4Iv, j))
        IN /\ Len(sm4Cipher) = Len(sm4Plain)
           /\ \A j \in 0..(quotients - 1) :
                 BlockAt(sm4Cipher, j) = xor(Stream(j), BlockAt(sm4Plain, j))
           /\ \A i \in 1..remainder :
                 sm4Cipher[(quotients * Sm4Block) + i]
                     = Xor8(Stream(quotients)[i], sm4Plain[(quotients * Sm4Block) + i])
           /\ pc = "deciphered" =>
                 sm4Out = Ok(encrypt_bytes("ctr", sm4Key, sm4Iv, sm4Cipher))

\* a counter of all 0xFF has wrapped: the second block is encrypted under
\* the counter of zeros
C15_CounterWrapped ==
    /\ pc = "enciphered"
    /\ sm4Mode = "ctr"
    /\ sm4Iv = Fill(255, Sm4Block)
    /\ Len(sm4Plain) > 2 * Sm4Block
    /\ BlockAt(sm4Cipher, 1)
           = xor(Sm4Encrypt(sm4Key, Fill(0, Sm4Block)), BlockAt(sm4Plain, 1))

(***************************************************************************)
(* SM3: one message hashed, its padded form and its blocks kept            *)
(***************************************************************************)
MaxSm3Len == 130

\* byte i of the messages; 0x80 and 0x00 occur among them
Sm3Byte(i) == IF i % 5 = 0 THEN 128 ELSE IF i % 7 = 0 THEN 0 ELSE ((i * 37) + 11) % 256

\* Crypto::new(data)
InitSm3 ==
    /\ pc = "new"
    /\ sm3Input \in {<< >> \o [i \in 1..l |-> Sm3Byte(i)] : l \in 0..MaxSm3Len}
    /\ sm3Data = sm3Input
    /\ sm3Blocks = << >>
    /\ sm3Digest = << >>
    /\ IdleKeys /\ IdleText /\ IdleCrypt /\ IdleSign /\ IdleKdf /\ IdleSm4 /\ IdleHex
    /\ IdleRed /\ IdleSel /\ IdlePay /\ IdleMul /\ IdleComb /\ IdleGen /\ IdleLoop /\ IdleInit /\ IdleAdd /\ IdleNaf

\* Crypto::hash: pad, block, iterate, output
CryptoHash ==
    /\ pc = "new"
    /\ \E padded \in {pad(sm3Data)} :
          \E blocks \in {block(padded)} :
             /\ sm3Data' = padded
             /\ sm3Blocks' = blocks
             /\ sm3Digest' = output(iterate(IV, blocks))
    /\ pc' = "hashed"
    /\ UNCHANGED <<genVars, loopVars, combVars, mulVars, payVars, selVars, redVars, initVars, addVars, nafVars, sm3Input, keyVars, plain, nonce, cryptVars, signVars,
                   kdfVars, sm4Vars, hexVars>>

NextSm3 == CryptoHash

SpecSm3 == InitSm3 /\ [][NextSm3]_vars

\* C16: the padded message of L bytes is the message, 0x80, k zero bytes and
\* the bit length 8 * L as 8 big-endian bytes, with 0 <= k < 64 and a total
\* of 64 * ceil((L + 9) / 64) bytes; block() ends with total / 64 blocks of
\* 64 bytes whose concatenation is the padded message.
C16_PadAndBlock ==
    pc = "hashed" =>
        LET L == Len(sm3Input)
            total == ((L + 9 + 63) \div 64) * 64
            k == total - (L + 9)
        IN /\ Len(sm3Data) = total
           /\ 0 <= k /\ k < 64
           /\ SubSeq(sm3Data, 1, L) = sm3Input
           /\ sm3Data[L + 1] = 128
           /\ \A i \in (L + 2)..(L + 1 + k) : sm3Data[i] = 0
           /\ \A i \in (total - 7)..(total - 4) : sm3Data[i] = 0
           /\ (((((sm3Data[total - 3] * 256) + sm3Data[total - 2]) * 256)
                   + sm3Data[total - 1]) * 256) + sm3Data[total] = 8 * L
           /\ Len(sm3Blocks) = total \div 64
           /\ \A c \in 1..Len(sm3Blocks) : Len(sm3Blocks[c]) = 64
           /\ \A i \in 1..total :
                 sm3Blocks[((i - 1) \div 64) + 1][((i - 1) % 64) + 1] = sm3Data[i]

\* a message of 56 bytes: 0x80 fills the first block and the length field
\* stands alone at the end of a second one
C16_SpillsOver ==
    /\ pc = "hashed"
    /\ Len(sm3Input) = 56
    /\ Len(sm3Blocks) = 2
    /\ sm3Data[57] = 128

(***************************************************************************)
(* P256Elliptic::init called from several threads                          *)
(***************************************************************************)
MaxCalls == 2

\* a call_once that only looks whether the closure has completed
OnceMayRunUnlessComplete(state) == state # "complete"

\* Once::call_once runs the closure of the first caller only
OnceMayRun(state) == state = "incomplete"

\* Once::call_once returns to the other callers when the closure has completed
OnceMayPass(state) == state = "complete"

\* the value the closure boxes
P256Constants ==
    [p |-> EC_P, a |-> EC_A, b |-> EC_B, gx |-> EC_GX, gy |-> EC_GY, n |-> EC_N,
     bits |-> 8 * CoordLen, ri |-> RI]

\* what reading through a null pointer can give: a fault, or whatever lies there
NullReads == {"fault", [P256Constants EXCEPT !.p = 0]}

InitInit ==
    /\ pc = "threads"
    /\ IdleInit
    /\ IdleKeys /\ IdleText /\ IdleCrypt /\ IdleSign /\ IdleKdf /\ IdleSm4 /\ IdleHex
    /\ IdleRed /\ IdleSel /\ IdlePay /\ IdleMul /\ IdleComb /\ IdleGen /\ IdleLoop /\ IdleSm3 /\ IdleAdd /\ IdleNaf

InitUnchanged ==
    UNCHANGED <<pc, genVars, loopVars, combVars, mulVars, payVars, selVars, redVars, sm3Vars, addVars, nafVars, keyVars, plain, nonce, cryptVars, signVars,
                kdfVars, sm4Vars, hexVars>>

\* a thread calls P256Elliptic::init() and reaches INITIALIZER.call_once
InitCall(t) ==
    /\ at[t] = "idle"
    /\ calls[t] < MaxCalls
    /\ calls' = [calls EXCEPT ![t] = calls[t] + 1]
    /\ at' = [at EXCEPT ![t] = "call_once"]
    /\ UNCHANGED <<once, elliptic, initRuns, got>>
    /\ InitUnchanged

\* call_once finds the Once fresh: this thread runs the closure
OnceBegin(t) ==
    /\ at[t] = "call_once"
    /\ OnceMayRun(once)
    /\ once' = "running"
    /\ at' = [at EXCEPT ![t] = "closure"]
    /\ UNCHANGED <<elliptic, initRuns, got, calls>>
    /\ InitUnchanged

\* the closure: ELLIPTIC = mem::transmute(Box::new(p256))
ClosureStore(t) ==
    /\ at[t] = "closure"
    /\ elliptic' = P256Constants
    /\ initRuns' = initRuns + 1
    /\ at' = [at EXCEPT ![t] = "stored"]
    /\ UNCHANGED <<once, got, calls>>
    /\ InitUnchanged

\* call_once returns to the thread that ran the closure
OnceComplete(t) ==
    /\ at[t] = "stored"
    /\ once' = "complete"
    /\ at' = [at EXCEPT ![t] = "deref"]
    /\ UNCHANGED <<elliptic, initRuns, got, calls>>
    /\ InitUnchanged

\* call_once returns to a thread that did not run the closure; while the
\* closure runs in another thread, the thread stays blocked in call_once
OncePass(t) ==
    /\ at[t] = "call_once"
    /\ OnceMayPass(once)
    /\ at' = [at EXCEPT ![t] = "deref"]
    /\ UNCHANGED <<once, elliptic, initRuns, got, calls>>
    /\ InitUnchanged

\* (*ELLIPTIC).clone(), returned
InitReturn(t) ==
    /\ at[t] = "deref"
    /\ \E v \in (IF elliptic = None THEN NullReads ELSE {elliptic}) :
          got' = [got EXCEPT ![t] = v]
    /\ at' = [at EXCEPT ![t] = "idle"]
    /\ UNCHANGED <<once, elliptic, initRuns, calls>>
    /\ InitUnchanged

NextInit ==
    \E t \in Threads :
       \/ InitCall(t)
       \/ OnceBegin(t)
       \/ ClosureStore(t)
       \/ OnceComplete(t)
       \/ OncePass(t)
       \/ InitReturn(t)

SpecInit == InitInit /\ [][NextInit]_vars

\* C17: whatever the interleaving of the threads, the closure of call_once
\* runs at most once and has run once when any call is past call_once, no
\* thread reads ELLIPTIC while it is null, ELLIPTIC once set holds the
\* curve constants and is not stored again, and every call returns them.
C17_InitOnce ==
    /\ initRuns <= 1
    /\ \A t \in Threads :
          /\ at[t] \in {"stored", "deref"} => (initRuns = 1 /\ elliptic = P256Constants)
          /\ got[t] # None => (initRuns = 1 /\ got[t] = P256Constants)
    /\ elliptic # None => elliptic = P256Constants
    /\ once = "complete" => initRuns = 1

\* two threads have each called init once and both have returned, after a
\* single run of the closure
C17_BothReturned ==
    \E t, u \in Threads :
       /\ t # u
       /\ calls[t] = 1 /\ calls[u] = 1
       /\ got[t] = P256Constants /\ got[u] = P256Constants
       /\ initRuns = 1

(***************************************************************************)
(* P256JacobianPoint::add on pairs of points                               *)
(***************************************************************************)
AddScalarCount == 3

AddScalars == <<1, 2, 3, 7>>

\* the Z coordinates the operands are given
AddZs == {1, 3}

\* the Jacobian point (x * z^2, y * z^3, z) in Montgomery form
Jacobian(A, z) ==
    <<transform((A[1] * z) * z), transform((((A[2] * z) % EC_P) * z) * z), transform(z)>>

\* the multiples k * G and -(k * G) of the base point, affine
AddAffines ==
    UNION {{A, <<A[1], (EC_P - A[2]) % EC_P>>} :
              A \in {scalar_base_multiply(AddScalars[i]) : i \in 1..AddScalarCount}}

\* the operands: those points under each Z, and two points with Z = 0
AddOperands ==
    {Jacobian(A, z) : A \in AddAffines, z \in AddZs}
        \cup {<<transform(1), transform(1), 0>>, <<transform(5), transform(9), 0>>}

InitAdd ==
    /\ pc = "operands"
    /\ addP1 \in AddOperands
    /\ addP2 \in AddOperands
    /\ addOut = <<0, 0, 0>>
    /\ IdleKeys /\ IdleText /\ IdleCrypt /\ IdleSign /\ IdleKdf /\ IdleSm4 /\ IdleHex
    /\ IdleRed /\ IdleSel /\ IdlePay /\ IdleMul /\ IdleComb /\ IdleGen /\ IdleLoop /\ IdleSm3 /\ IdleInit /\ IdleNaf

\* P256JacobianPoint::add
PointAdd ==
    /\ pc = "operands"
    /\ addOut' = JacobianAdd(addP1, addP2)
    /\ pc' = "added"
    /\ UNCHANGED <<genVars, loopVars, combVars, mulVars, payVars, selVars, redVars, sm3Vars, initVars, nafVars, addP1, addP2, keyVars,
                   plain, nonce, cryptVars, signVars, kdfVars, sm4Vars, hexVars>>

NextAdd == PointAdd

SpecAdd == InitAdd /\ [][NextAdd]_vars

\* the affine point a Jacobian point stands for: (X / Z^2, Y / Z^3), or the
\* point at infinity when Z = 0
Represented(P) ==
    LET WithZi(zi) ==
            <<(((restore(P[1]) * zi) % EC_P) * zi) % EC_P,
              (((((restore(P[2]) * zi) % EC_P) * zi) % EC_P) * zi) % EC_P>>
    IN IF restore(P[3]) = 0 THEN <<"infinity">>
       ELSE WithZi(extended_gcd_x(restore(P[3]), EC_P) % EC_P)

\* the sum of two distinct affine points by the chord rule
ChordSum(A, B) ==
    LET WithX3(lambda, x3) == <<x3, ((lambda * ((A[1] - x3) % EC_P)) - A[2]) % EC_P>>
        WithLambda(lambda) == WithX3(lambda, (((lambda * lambda) - A[1]) - B[1]) % EC_P)
    IN IF A[1] = B[1] THEN <<"infinity">>
       ELSE WithLambda((((B[2] - A[2]) % EC_P)
                           * (extended_gcd_x((B[1] - A[1]) % EC_P, EC_P) % EC_P)) % EC_P)

\* C19: add returns the other operand when an operand has Z = 0, a point
\* that stands for the same affine point as P1.double() when both operands
\* stand for the same affine point, and otherwise a point that stands for
\* the sum of the two.
C19_TotalAddition ==
    pc = "added" =>
        IF restore(addP1[3]) = 0 THEN addOut = addP2
        ELSE IF restore(addP2[3]) = 0 THEN addOut = addP1
        ELSE IF Represented(addP1) = Represented(addP2)
        THEN Represented(addOut) = Represented(double(addP1))
        ELSE Represented(addOut) = ChordSum(Represented(addP1), Represented(addP2))

\* outside the case of two equal points, add is the group addition
C19_AdditionOfDistinct ==
    (pc = "added" /\ (restore(addP1[3]) = 0 \/ restore(addP2[3]) = 0
                         \/ Represented(addP1) # Represented(addP2))) =>
        C19_TotalAddition

(***************************************************************************)
(* w_naf on scalars                                                        *)
(***************************************************************************)
MaxNafScalar == 2000

InitNaf ==
    /\ pc = "scalar"
    /\ nafScalar \in 0..MaxNafScalar
    /\ nafDigits = << >>
    /\ IdleKeys /\ IdleText /\ IdleCrypt /\ IdleSign /\ IdleKdf /\ IdleSm4 /\ IdleHex
    /\ IdleRed /\ IdleSel /\ IdlePay /\ IdleMul /\ IdleComb /\ IdleGen /\ IdleLoop /\ IdleSm3 /\ IdleInit /\ IdleAdd

\* w_naf
WNaf ==
    /\ pc = "scalar"
    /\ nafDigits' = w_naf(nafScalar)
    /\ pc' = "digits"
    /\ UNCHANGED <<genVars, loopVars, combVars, mulVars, payVars, selVars, redVars, sm3Vars, initVars, addVars, nafScalar, keyVars,
                   plain, nonce, cryptVars, signVars, kdfVars, sm4Vars, hexVars>>

NextNaf == WNaf

SpecNaf == InitNaf /\ [][NextNaf]_vars

\* the value of digits given most significant first
RECURSIVE DigitsValue(_, _, _)
DigitsValue(digits, i, acc) ==
    IF i > Len(digits) THEN acc ELSE DigitsValue(digits, i + 1, (2 * acc) + digits[i])

\* at most one non-zero digit among any w consecutive positions
Spaced(digits, w) ==
    \A i, j \in 1..Len(digits) :
        (i < j /\ j - i < w /\ digits[i] # 0) => digits[j] = 0

ReduceSpan == 60

\* scalars from 0, around n and around 2 * n
ReduceScalars ==
    (0..ReduceSpan)
        \cup {(EC_N + i) - (ReduceSpan \div 2) : i \in 0..ReduceSpan}
        \cup {((2 * EC_N) + i) - (ReduceSpan \div 2) : i \in 0..ReduceSpan}

InitReduce ==
    /\ pc = "scalar"
    /\ redScalar \in ReduceScalars
    /\ redOut = None
    /\ IdleKeys /\ IdleText /\ IdleCrypt /\ IdleSign /\ IdleKdf /\ IdleSm4 /\ IdleHex
    /\ IdleSel /\ IdlePay /\ IdleMul /\ IdleComb /\ IdleGen /\ IdleLoop /\ IdleSm3 /\ IdleInit /\ IdleAdd /\ IdleNaf

\* Elliptic::scalar_reduce
ScalarReduce ==
    /\ pc = "scalar"
    /\ redOut' = scalar_reduce(redScalar)
    /\ pc' = "reduced"
    /\ UNCHANGED <<genVars, loopVars, combVars, mulVars, payVars, selVars, sm3Vars, initVars, addVars, nafVars, redScalar,
                   keyVars, plain, nonce, cryptVars, signVars, kdfVars, sm4Vars, hexVars>>

NextReduce == ScalarReduce

SpecReduce == InitReduce /\ [][NextReduce]_vars

\* C27: scalar_reduce(s) lies in [0, n) and is congruent to s modulo n, for
\* every scalar s >= 0, s = n included.
C27_ReducedBelowOrder ==
    pc = "reduced" =>
        /\ 0 <= redOut /\ redOut < EC_N
        /\ redOut % EC_N = redScalar % EC_N

\* apart from s = n, scalar_reduce(s) is s modulo n
C27_ReducedUnlessOrder ==
    (pc = "reduced" /\ redScalar # EC_N) => redOut = redScalar % EC_N

(***************************************************************************)
(* cbc decrypt_bytes on ciphertexts that encrypt_bytes did not make        *)
(***************************************************************************)
ForgedLastMax == 9

\* whole blocks ending in the byte v
ForgedBlocks == {Fill(7, (b * Sm4Block) - 1) \o <<v>> : b \in 1..2, v \in 0..ForgedLastMax}

\* the blocks sm4Plain chained and encrypted without padding; also the empty
\* string and a string that is no whole number of blocks
InitForged ==
    /\ pc = "enciphered"
    /\ sm4Mode = "cbc"
    /\ sm4Key \in Sm4Keys
    /\ sm4Iv \in Sm4Ivs
    /\ sm4Plain \in ForgedBlocks \cup {<< >>, <<7, 7, 7>>}
    /\ sm4Cipher = IF Len(sm4Plain) % Sm4Block = 0
                   THEN CbcEncryptLoop(sm4Key, sm4Plain, 0, sm4Iv, << >>)[2]
                   ELSE sm4Plain
    /\ sm4Out = None
    /\ IdleKeys /\ IdleText /\ IdleCrypt /\ IdleSign /\ IdleKdf /\ IdleHex /\ IdleOther

NextForged == DecryptBytes

SpecForged == InitForged /\ [][NextForged]_vars

\* C29: cbc decrypt_bytes fails on the empty ciphertext and on every
\* ciphertext whose last decrypted byte is no padding length in 1..B, B the
\* block size; what it returns has Len(cipher) - N bytes with 1 <= N <= B.
C29_PaddingValidated ==
    (pc = "deciphered" /\ sm4Mode = "cbc") =>
        /\ Len(sm4Cipher) = 0 => ~sm4Out.ok
        /\ (Len(sm4Cipher) > 0 /\ Len(sm4Cipher) % Sm4Block = 0
               /\ CbcLastBlock[Sm4Block] \notin 1..Sm4Block) => ~sm4Out.ok
        /\ sm4Out.ok =>
              \E N \in 1..Sm4Block : Len(sm4Out.val) = Len(sm4Cipher) - N

\* what cbc decrypt_bytes does on any ciphertext: it fails on a length that
\* is no positive multiple of B and on a last byte above the length, and
\* otherwise drops as many bytes as the last byte says, zero included
C29_LastByteTrusted ==
    (pc = "deciphered" /\ sm4Mode = "cbc") =>
        IF Len(sm4Cipher) = 0 \/ Len(sm4Cipher) % Sm4Block # 0 THEN ~sm4Out.ok
        ELSE IF CbcLastBlock[Sm4Block] > Len(sm4Cipher) THEN ~sm4Out.ok
        ELSE /\ sm4Out.ok
             /\ Len(sm4Out.val) = Len(sm4Cipher) - CbcLastBlock[Sm4Block]

\* C30: for the empty plaintext no nonce makes the loop of the encryptor
\* restart, the encryptor returns C1 || C3 with an empty C2, of
\* 1 + 2 * CoordLen + HashLen bytes, and the decryptor maps that back to the
\* empty string.
C30_EmptyPlaintext ==
    plain = << >> =>
        /\ pc = "ready" =>
              \A i \in 1..NonceCount :
                  EncryptPass(puk, mode, plain,
                              random(1, EC_N - 1, NonceSeeds[i])).out.err # "retry"
        /\ pc # "panicked"
        /\ pc \in {"encrypted", "decrypted"} =>
              /\ written[2] = << >>
              /\ HexDecode(encrypted.val) = written[1] \o written[3]
              /\ Len(HexDecode(encrypted.val)) = 1 + (2 * CoordLen) + HashLen
        /\ (pc = "decrypted" /\ cipher = encrypted.val) => decrypted = Ok(<< >>)

\* what holds for the empty plaintext whatever the nonce: the loop does not
\* restart and the encryptor returns C1 || C3 with an empty C2
C30_EmptyReturns ==
    plain = << >> =>
        /\ pc = "ready" =>
              \A i \in 1..NonceCount :
                  EncryptPass(puk, mode, plain,
                              random(1, EC_N - 1, NonceSeeds[i])).out.err # "retry"
        /\ pc # "panicked"
        /\ pc \in {"encrypted", "decrypted"} =>
              /\ written[2] = << >>
              /\ Len(written[3]) = HashLen
              /\ HexDecode(encrypted.val) = written[1] \o written[3]

(***************************************************************************)
(* The table select and the conditional copy on their own                  *)
(***************************************************************************)
\* tables of 15 entries: the two halves of the comb table, a table whose
\* entries fill the limbs, and a table whose entries share no bit
SelTables ==
    {MULTI_BASE_POINT_PRECOMPUTED[1],
     MULTI_BASE_POINT_PRECOMPUTED[2],
     << >> \o [i \in 1..15 |-> <<536870911 - i, 268435455 - i>>],
     << >> \o [i \in 1..15 |-> <<Pow2(i), Pow2(i + 14)>>]}

\* Jacobian points in Montgomery form, and two with limbs full of ones
CopyPoints ==
    {<<0, 0, 0>>,
     <<transform(EC_GX), transform(EC_GY), P256FACTOR1>>,
     <<536870911, 268435455, 536870911>>,
     <<21845, 43690, 1>>}

InitSelect ==
    /\ pc = "operands"
    /\ selIndex \in 0..15
    /\ selTable \in SelTables
    /\ selOut = << >>
    /\ copySelf \in CopyPoints
    /\ copySource \in CopyPoints
    /\ copyMask \in {0, U32MAX}
    /\ copyOut = << >>
    /\ IdleKeys /\ IdleText /\ IdleCrypt /\ IdleSign /\ IdleKdf /\ IdleSm4 /\ IdleHex
    /\ IdlePay /\ IdleMul /\ IdleComb /\ IdleGen /\ IdleLoop /\ IdleSm3 /\ IdleInit /\ IdleAdd /\ IdleNaf /\ IdleRed

\* P256AffinePoint::select
Select ==
    /\ pc = "operands"
    /\ selOut = << >>
    /\ selOut' = AffineSelect(selIndex, selTable)
    /\ UNCHANGED <<pc, genVars, loopVars, combVars, mulVars, payVars, sm3Vars, initVars, addVars, nafVars, redVars,
                   selIndex, selTable, copySelf, copySource, copyMask, copyOut, keyVars,
                   plain, nonce, cryptVars, signVars, kdfVars, sm4Vars, hexVars>>

\* P256JacobianPoint::copy_from_with_conditional
ConditionalCopy ==
    /\ pc = "operands"
    /\ copyOut = << >>
    /\ copyOut' = copy_from_with_conditional(copySelf, copySource, copyMask)
    /\ UNCHANGED <<pc, genVars, loopVars, combVars, mulVars, payVars, sm3Vars, initVars, addVars, nafVars, redVars,
                   selIndex, selTable, selOut, copySelf, copySource, copyMask, keyVars,
                   plain, nonce, cryptVars, signVars, kdfVars, sm4Vars, hexVars>>

NextSelect == Select \/ ConditionalCopy

SpecSelect == InitSelect /\ [][NextSelect]_vars

\* C24: select returns the pair of zeros for index 0 and the entry of the
\* table at the index for an index in 1..15; the mask of an entry is all
\* ones when its number is the index and zero otherwise, so no other entry
\* gives a bit to the result.
C24_SelectExact ==
    selOut # << >> =>
        /\ selIndex = 0 => selOut = <<0, 0>>
        /\ selIndex \in 1..15 => selOut = selTable[selIndex]
        /\ \A i \in 1..15 :
              SelectMask(i, selIndex) = IF i = selIndex THEN U32MAX ELSE 0

\* the last entry selected from a table whose entries fill the limbs
C24_LastEntry ==
    /\ selIndex = 15
    /\ selTable[1] = <<536870910, 268435454>>
    /\ selOut = <<536870896, 268435440>>

\* C25: copy_from_with_conditional returns the source, X, Y and Z, when the
\* mask is 0xFFFFFFFF and the receiver when the mask is 0.
C25_ConditionalCopy ==
    copyOut # << >> =>
        /\ copyMask = U32MAX => copyOut = copySource
        /\ copyMask = 0 => copyOut = copySelf

\* a copy that replaced the receiver by a different source
C25_SourceTaken ==
    /\ copyMask = U32MAX
    /\ copySelf = <<536870911, 268435455, 536870911>>
    /\ copyOut = <<21845, 43690, 1>>

(***************************************************************************)
(* PayloadHelper::transform and restore down to the limbs                  *)
(***************************************************************************)
PayloadCount == 2000

\* integers spread over [0, p), with both ends
PayloadInputs == {(i * 23) % EC_P : i \in 0..PayloadCount} \cup {EC_P - 1}

InitPayload ==
    /\ pc = "number"
    /\ payN \in PayloadInputs
    /\ payLimbs = << >>
    /\ payBack = 0
    /\ IdleKeys /\ IdleText /\ IdleCrypt /\ IdleSign /\ IdleKdf /\ IdleSm4 /\ IdleHex
    /\ IdleMul /\ IdleComb /\ IdleGen /\ IdleLoop /\ IdleSm3 /\ IdleInit /\ IdleAdd /\ IdleNaf /\ IdleRed
    /\ IdleSel

\* PayloadHelper::transform
Transform ==
    /\ pc = "number"
    /\ payLimbs' = TransformLimbs(payN)
    /\ pc' = "limbs"
    /\ UNCHANGED <<genVars, loopVars, combVars, mulVars, sm3Vars, initVars, addVars, nafVars, redVars, selVars,
                   payN, payBack, keyVars, plain, nonce, cryptVars, signVars, kdfVars,
                   sm4Vars, hexVars>>

\* PayloadHelper::restore
Restore ==
    /\ pc = "limbs"
    /\ payBack' = RestoreLimbs(payLimbs)
    /\ pc' = "restored"
    /\ UNCHANGED <<genVars, loopVars, combVars, mulVars, sm3Vars, initVars, addVars, nafVars, redVars, selVars,
                   payN, payLimbs, keyVars, plain, nonce, cryptVars, signVars, kdfVars,
                   sm4Vars, hexVars>>

NextPayload == Transform \/ Restore

SpecPayload == InitPayload /\ [][NextPayload]_vars

\* n * 2^k modulo p by doubling
RECURSIVE ShlMod(_, _)
ShlMod(n, k) == IF k = 0 THEN n % EC_P ELSE ShlMod((2 * n) % EC_P, k - 1)

\* the bit at which limb i (from 0) starts
LimbOffset(i) == ((i \div 2) * (WideBits + NarrowBits)) + ((i % 2) * WideBits)

RECURSIVE LimbSum(_, _)
LimbSum(data, i) ==
    IF i = Len(data) THEN 0
    ELSE (data[i + 1] * Pow2(LimbOffset(i))) + LimbSum(data, i + 1)

\* C26: for n in [0, p) restore(transform(n)) = n; the limbs transform
\* returns are below 2^WideBits at the even indexes and below 2^NarrowBits at
\* the odd ones, and their sum weighted by 2^offset is n * R modulo p, R
\* being 2 to the number of bits of all limbs.
C26_LimbRoundTrip ==
    /\ pc \in {"limbs", "restored"} =>
          /\ Len(payLimbs) = LimbCount
          /\ \A i \in 0..(LimbCount - 1) :
                /\ 0 <= payLimbs[i + 1]
                /\ payLimbs[i + 1] < Pow2(IF i % 2 = 0 THEN WideBits ELSE NarrowBits)
          /\ LimbSum(payLimbs, 0) = ShlMod(payN, LimbOffset(LimbCount))
    /\ pc = "restored" => payBack = payN

\* p - 1 transformed and restored, its top limb in use
C26_LargestRestored ==
    /\ pc = "restored"
    /\ payN = EC_P - 1
    /\ payLimbs[LimbCount] # 0
    /\ payBack = EC_P - 1

(***************************************************************************)
(* P256AffinePoint::multiply, one digit of the drive loop at a time        *)
(***************************************************************************)
MulBaseCount == 2

\* the multiples of the base point that are multiplied
MulBases == <<1, 5, 20011>>

MulSmallMax == 40

MulNearOrder == 8

\* small scalars, scalars up to the order, and the order plus one
MulScalars ==
    (0..MulSmallMax) \cup {EC_N - j : j \in 0..MulNearOrder} \cup {EC_N + 1}

MulPoints ==
    {<<transform(A[1]), transform(A[2])>> :
        A \in {scalar_base_multiply(MulBases[i]) : i \in 1..MulBaseCount}}

InitMul ==
    /\ pc = "operands"
    /\ mulPoint \in MulPoints
    /\ mulScalar \in MulScalars
    /\ mulTable = << >> /\ mulDigits = << >> /\ mulI = 0 /\ mulP1 = << >>
    /\ mulCounter = 0 /\ mulMask = 0 /\ mulDoubles = 0 /\ mulOut = << >>
    /\ IdleKeys /\ IdleText /\ IdleCrypt /\ IdleSign /\ IdleKdf /\ IdleSm4 /\ IdleHex
    /\ IdleComb /\ IdleGen /\ IdleLoop /\ IdleSm3 /\ IdleInit /\ IdleAdd /\ IdleNaf /\ IdleRed
    /\ IdleSel /\ IdlePay

\* multiply down to the for loop: precomp, w_naf, the accumulator
MulStart ==
    /\ pc = "operands"
    /\ mulTable' = Precomp(mulPoint)
    /\ mulDigits' = w_naf(mulScalar)
    /\ mulI' = 1
    /\ mulP1' = <<0, 0, 0>>
    /\ mulCounter' = 0
    /\ mulMask' = U32MAX
    /\ pc' = "driving"
    /\ UNCHANGED <<genVars, loopVars, combVars, sm3Vars, initVars, addVars, nafVars, redVars, selVars,
                   payVars, mulPoint, mulScalar, mulDoubles, mulOut, keyVars, plain, nonce,
                   cryptVars, signVars, kdfVars, sm4Vars, hexVars>>

\* one pass of the for loop
MulDigit ==
    /\ pc = "driving"
    /\ mulI <= Len(mulDigits)
    /\ \E r \in {DriveStep(mulDigits, mulI, mulTable, mulP1, mulCounter, mulMask)} :
          /\ mulP1' = r[1]
          /\ mulCounter' = r[2]
          /\ mulMask' = r[3]
    /\ mulDoubles' =
          IF mulDigits[mulI] = 0 \/ mulMask # 0 THEN mulDoubles
          ELSE mulDoubles + mulCounter + 1
    /\ mulI' = mulI + 1
    /\ UNCHANGED <<pc, genVars, loopVars, combVars, sm3Vars, initVars, addVars, nafVars, redVars,
                   selVars, payVars, mulPoint, mulScalar, mulTable, mulDigits, mulOut,
                   keyVars, plain, nonce, cryptVars, signVars, kdfVars, sm4Vars, hexVars>>

\* after the for loop: the doublings still owed, then to_affine_point
MulFinish ==
    /\ pc = "driving"
    /\ mulI > Len(mulDigits)
    /\ \E r \in {DoubleTimes(mulP1, mulCounter)} :
          /\ mulP1' = r
          /\ mulOut' = to_affine_point(r)
    /\ mulCounter' = 0
    /\ mulDoubles' = IF mulMask # 0 THEN mulDoubles ELSE mulDoubles + mulCounter
    /\ pc' = "multiplied"
    /\ UNCHANGED <<genVars, loopVars, combVars, sm3Vars, initVars, addVars, nafVars, redVars, selVars,
                   payVars, mulPoint, mulScalar, mulTable, mulDigits, mulI, mulMask,
                   keyVars, plain, nonce, cryptVars, signVars, kdfVars, sm4Vars, hexVars>>

NextMul == MulStart \/ MulDigit \/ MulFinish

SpecMul == InitMul /\ [][NextMul]_vars

\* the double of an affine point by the tangent rule
TangentDouble(A) ==
    LET WithX3(lambda, x3) == <<x3, ((lambda * ((A[1] - x3) % EC_P)) - A[2]) % EC_P>>
        WithLambda(lambda) == WithX3(lambda, ((lambda * lambda) - (2 * A[1])) % EC_P)
    IN IF A[2] = 0 THEN <<"infinity">>
       ELSE WithLambda(((((3 * ((A[1] * A[1]) % EC_P)) + EC_A) % EC_P)
                           * (extended_gcd_x((2 * A[2]) % EC_P, EC_P) % EC_P)) % EC_P)

\* the group law on affine points and <<"infinity">>
GroupSum(A, B) ==
    IF A = <<"infinity">> THEN B
    ELSE IF B = <<"infinity">> THEN A
    ELSE IF A[1] # B[1] THEN ChordSum(A, B)
    ELSE IF (A[2] + B[2]) % EC_P = 0 THEN <<"infinity">>
    ELSE TangentDouble(A)

\* k * A by double-and-add
RECURSIVE GroupMul(_, _)
GroupMul(k, A) ==
    LET Twice(h) == IF k % 2 = 1 THEN GroupSum(GroupSum(h, h), A) ELSE GroupSum(h, h)
    IN IF k = 0 THEN <<"infinity">> ELSE Twice(GroupMul(k \div 2, A))

\* the rows of precomp that stand for m * self
RowsOf(m) ==
    {j \in 0..15 : /\ mulTable[j + 1] # <<0, 0, 0>>
                   /\ Represented(mulTable[j + 1]) = GroupMul(m, AffineRestore(mulPoint))}

\* every non-zero digit d of w_naf(scalar) selects its own row, which stands
\* for |d| * self and is not an all-zero row
DigitsSelectMultiples ==
    \A i \in 1..Len(mulDigits) :
        mulDigits[i] # 0 =>
            /\ JacobianSelect(abs(mulDigits[i]), mulTable) = mulTable[abs(mulDigits[i]) + 1]
            /\ abs(mulDigits[i]) \in RowsOf(abs(mulDigits[i]))

C28_DigitsDriveMultiple ==
    pc = "multiplied" =>
        /\ DigitsValue(mulDigits, 1, 0) = mulScalar
        /\ mulScalar > 0 => (mulDigits[1] > 0 /\ mulDoubles = Len(mulDigits) - 1)
        /\ Represented(mulP1) = GroupMul(mulScalar, AffineRestore(mulPoint))

\* the digits and the doublings alone
C28_DigitsAndDoublings ==
    pc = "multiplied" =>
        /\ DigitsValue(mulDigits, 1, 0) = mulScalar
        /\ mulScalar > 0 => (mulDigits[1] > 0 /\ mulDoubles = Len(mulDigits) - 1)

(***************************************************************************)
(* P256BasePoint::multiply, one table half of the comb at a time           *)
(***************************************************************************)
\* the entries of one half of BASE_TABLE: offset += 30 * 9 words
HalfEntries == 15

CombSmallMax == 80

CombSpread == 120

\* small scalars, scalars spread over the array's range, its largest value,
\* and the first scalar that does not fit the array
CombScalars ==
    (0..CombSmallMax)
        \cup {(i * 547) % Pow2(8 * CoordLen) : i \in 0..CombSpread}
        \cup {Pow2(8 * CoordLen) - 1, Pow2(8 * CoordLen)}

InitComb ==
    /\ pc = "scalar"
    /\ combScalar \in CombScalars
    /\ combBytes = << >> /\ combI = 0 /\ combJ = 0 /\ combOffset = 0
    /\ combJac = << >> /\ combMask = 0 /\ combReads = << >> /\ combOut = << >>
    /\ IdleKeys /\ IdleText /\ IdleCrypt /\ IdleSign /\ IdleKdf /\ IdleSm4 /\ IdleHex
    /\ IdleGen /\ IdleLoop /\ IdleSm3 /\ IdleInit /\ IdleAdd /\ IdleNaf /\ IdleRed
    /\ IdleSel /\ IdlePay /\ IdleMul

\* bytes[i] = *v past the end of the array
CombPanic ==
    /\ pc = "scalar"
    /\ BaseMultiplyPanics(combScalar)
    /\ pc' = "panicked"
    /\ UNCHANGED <<genVars, loopVars, sm3Vars, initVars, addVars, nafVars, redVars, selVars,
                   payVars, mulVars, combVars, keyVars, plain, nonce, cryptVars, signVars,
                   kdfVars, sm4Vars, hexVars>>

\* multiply down to the for loop: the byte array, the accumulator, the mask
CombStart ==
    /\ pc = "scalar"
    /\ ~BaseMultiplyPanics(combScalar)
    /\ combBytes' = ScalarBytes(combScalar)
    /\ combJac' = <<0, 0, 0>>
    /\ combMask' = U32MAX
    /\ combI' = 0
    /\ combJ' = 0
    /\ combOffset' = 0
    /\ pc' = "comb"
    /\ UNCHANGED <<genVars, loopVars, sm3Vars, initVars, addVars, nafVars, redVars, selVars,
                   payVars, mulVars, combScalar, combReads, combOut, keyVars, plain, nonce,
                   cryptVars, signVars, kdfVars, sm4Vars, hexVars>>

\* one pass of the while loop, after the doubling of the for loop when it is
\* the first pass of an iteration other than the first
CombWindow ==
    /\ pc = "comb"
    /\ combI < CombIters
    /\ \E st \in {CombStep(combBytes,
                           [jacobian |-> IF combJ = 0 /\ combI # 0 THEN double(combJac)
                                         ELSE combJac,
                            n_is_infinity_mask |-> combMask],
                           combI, combJ)} :
          /\ combJac' = st.jacobian
          /\ combMask' = st.n_is_infinity_mask
    /\ combReads' = combReads \o [m \in 1..4 |-> CombBit(m - 1, combI, combJ)]
    /\ IF combJ + CombIters <= CombIters
       THEN combJ' = combJ + CombIters /\ combOffset' = combOffset + HalfEntries
                /\ combI' = combI
       ELSE combJ' = 0 /\ combOffset' = 0 /\ combI' = combI + 1
    /\ UNCHANGED <<pc, genVars, loopVars, sm3Vars, initVars, addVars, nafVars, redVars,
                   selVars, payVars, mulVars, combScalar, combBytes, combOut, keyVars,
                   plain, nonce, cryptVars, signVars, kdfVars, sm4Vars, hexVars>>

\* after the for loop: to_affine_point
CombFinish ==
    /\ pc = "comb"
    /\ combI = CombIters
    /\ combOut' = to_affine_point(combJac)
    /\ pc' = "multiplied"
    /\ UNCHANGED <<genVars, loopVars, sm3Vars, initVars, addVars, nafVars, redVars, selVars,
                   payVars, mulVars, combScalar, combBytes, combI, combJ, combOffset,
                   combJac, combMask, combReads, keyVars, plain, nonce, cryptVars,
                   signVars, kdfVars, sm4Vars, hexVars>>

NextComb == CombPanic \/ CombStart \/ CombWindow \/ CombFinish

SpecComb == InitComb /\ [][NextComb]_vars

\* the entry the pass at (combI, combJ) selects
CombSelected ==
    AffineSelect(CombIndex(combBytes, combI, combJ),
                 MULTI_BASE_POINT_PRECOMPUTED[(combOffset \div HalfEntries) + 1])

\* the accumulator the pass at (combI, combJ) starts from
CombDoubled == IF combJ = 0 /\ combI # 0 THEN double(combJac) ELSE combJac

\* C22: the infinity mask is 0 or 0xFFFFFFFF, starts as 0xFFFFFFFF, goes to
\* 0 at the first pass whose comb index is non-zero and stays 0; while it is
\* 0xFFFFFFFF a pass assigns the accumulator the selected entry with Z the
\* Montgomery form of 1; once it is 0 a pass assigns it the add_affine result
\* when the index is non-zero and leaves it alone when the index is 0.
C22_InfinityMask ==
    [][/\ (pc = "scalar" /\ pc' = "comb") => combMask' = U32MAX
       /\ (pc = "comb" /\ pc' = "comb") =>
             /\ combMask \in {0, U32MAX}
             /\ combMask' = IF combMask = U32MAX /\ CombIndex(combBytes, combI, combJ) = 0
                            THEN U32MAX ELSE 0
             /\ combJac' =
                   IF combMask = U32MAX
                   THEN <<CombSelected[1], CombSelected[2], P256FACTOR1>>
                   ELSE IF CombIndex(combBytes, combI, combJ) # 0
                   THEN add_affine(CombDoubled, CombSelected)
                   ELSE CombDoubled]_vars

\* the mask cleared by the second pass, the index of the first being 0
C22_ClearedBySecondPass ==
    /\ pc = "comb"
    /\ combI = 1 /\ combJ = 0
    /\ combMask = 0
    /\ CombIndex(combBytes, 0, 0) = 0
    /\ CombIndex(combBytes, 0, CombIters) # 0

\* C23: the passes read the bit positions (2m + 1) * CombIters - 1 - i from
\* the first table half and (2m + 2) * CombIters - 1 - i from the second, m
\* in 0..3 (31 - i, 95 - i, 159 - i, 223 - i and 63 - i, 127 - i, 191 - i,
\* 255 - i in the source); over all iterations every position of the scalar
\* is read exactly once; the second pass of an iteration selects from the
\* second half of the table; and a scalar that fits the byte array is
\* copied and read inside the array.
C23_CombPositions ==
    /\ combScalar < Pow2(8 * CoordLen) => pc # "panicked"
    /\ pc \in {"comb", "multiplied"} =>
          /\ Len(combBytes) = CoordLen
          /\ combOffset = (IF combJ = 0 THEN 0 ELSE HalfEntries)
          /\ Len(combReads) = 4 * ((2 * combI) + (combJ \div CombIters))
          /\ \A w \in 0..((Len(combReads) \div 4) - 1) : \A m \in 0..3 :
                combReads[(4 * w) + m + 1] =
                    ((((2 * m) + 1 + (w % 2)) * CombIters) - 1) - (w \div 2)
          /\ \A r \in 1..Len(combReads) :
                /\ combReads[r] \in 0..((8 * CoordLen) - 1)
                /\ (combReads[r] \div 8) + 1 \in DOMAIN combBytes
                /\ \A q \in 1..Len(combReads) : combReads[q] = combReads[r] => q = r
    /\ pc = "multiplied" =>
          {combReads[r] : r \in 1..Len(combReads)} = 0..((8 * CoordLen) - 1)

\* the largest scalar of the array multiplied, its sixteen bits read
C23_AllBitsRead ==
    /\ pc = "multiplied"
    /\ combScalar = Pow2(8 * CoordLen) - 1
    /\ Len(combReads) = 8 * CoordLen
    /\ combOut # << >>

=============================================================================
